---- MODULE Spec2Model ----
(***************************************************************************)
(* Proof-repair mining pipeline of evals/dalek_history.                    *)
(*                                                                         *)
(* Phase A (identify_candidates) walks the commit history newest first and *)
(* keeps the commits that modify both definition files and qualifying      *)
(* proof files.  Phase B (validate_candidate, driven by run_mining) checks *)
(* out each candidate, reverts one proof file at a time to its parent      *)
(* state, runs the build, and packages a Challenge when the reverted state *)
(* fails with a verification error.                                        *)
(*                                                                         *)
(* Text (stderr, hashes, error messages) is modelled as sequences of       *)
(* one-character strings so that substring search, slicing and            *)
(* concatenation are computed as the code computes them.                   *)
(***************************************************************************)
EXTENDS Integers, Sequences, FiniteSets, TLC

(***************************************************************************)
(* Bounds of the model.                                                    *)
(***************************************************************************)
\* largest max_commits value the configuration file may hold
MaxCommitsCfg == 2
\* largest positive --limit value given on the command line
MaxLimit == 1
\* largest value of the two filtering thresholds
MaxThreshold == 2

(***************************************************************************)
(* Generic helpers.                                                        *)
(***************************************************************************)
Min(a, b) == IF a < b THEN a ELSE b

Range(s) == {s[i] : i \in 1..Len(s)}

\* Python `p in s` on strings
Contains(s, p) ==
    \E i \in 1..(Len(s) - Len(p) + 1) : SubSeq(s, i, i + Len(p) - 1) = p

\* Python s[:n]
Prefix(s, n) == SubSeq(s, 1, Min(n, Len(s)))

(***************************************************************************)
(* Paths.  A path is its parent directories, the stem of the final         *)
(* component and its suffix, which is what pathlib exposes.                *)
(***************************************************************************)
DefsFile == [parent |-> <<"Curve">>, stem |-> "Defs", suffix |-> ".lean"]
CurveBasic == [parent |-> <<"Curve">>, stem |-> "Basic", suffix |-> ".lean"]
FieldBasic == [parent |-> <<"Field">>, stem |-> "Basic", suffix |-> ".lean"]
Readme == [parent |-> <<>>, stem |-> "README", suffix |-> ".md"]

\* tracked paths, in tree traversal order
FileOrder == <<DefsFile, CurveBasic, FieldBasic, Readme>>
Files == Range(FileOrder)

\* Path(p).stem
Stem(p) == p.stem

\* str(p).endswith(".lean")
EndsWithLean(p) == p.suffix = ".lean"

(***************************************************************************)
(* File contents.  A blob carries what the classifier derives from the     *)
(* text (definition marker, declaration counts) and a revision number that *)
(* distinguishes texts with equal counts.                                  *)
(***************************************************************************)
Blob(d, t, l, k, r) ==
    [exists |-> TRUE, defs |-> d, theorems |-> t, lemmas |-> l,
     tactics |-> k, rev |-> r]

Absent ==
    [exists |-> FALSE, defs |-> FALSE, theorems |-> 0, lemmas |-> 0,
     tactics |-> 0, rev |-> 0]

MkTree(d, a, b, r) ==
    (DefsFile :> d) @@ (CurveBasic :> a) @@ (FieldBasic :> b) @@ (Readme :> r)

MkCommit(sha, ps, t) == [hexsha |-> sha, parents |-> ps, tree |-> t]

Sha(a, b) == <<a, b, "c", "0", "f", "f", "e", "e", "0", "1">>

(***************************************************************************)
(* Fabricated repositories: a repository is its list of commits, oldest    *)
(* first; the start reference resolves to the last one.                    *)
(***************************************************************************)
\* root with definitions and two proof files sharing a stem; the second
\* commit changes all three, the third changes the definitions and one proof
RepoSameStem ==
    << MkCommit(Sha("1", "a"), <<>>,
           MkTree(Blob(TRUE, 0, 0, 0, 1), Blob(FALSE, 1, 0, 1, 1),
                  Blob(FALSE, 0, 1, 0, 1), Blob(FALSE, 0, 0, 0, 1))),
       MkCommit(Sha("2", "b"), <<1>>,
           MkTree(Blob(TRUE, 0, 0, 0, 2), Blob(FALSE, 1, 0, 1, 2),
                  Blob(FALSE, 0, 1, 0, 2), Blob(FALSE, 0, 0, 0, 1))),
       MkCommit(Sha("3", "c"), <<2>>,
           MkTree(Blob(TRUE, 0, 0, 0, 3), Blob(FALSE, 2, 0, 2, 3),
                  Blob(FALSE, 0, 1, 0, 2), Blob(FALSE, 0, 0, 0, 2))) >>

\* a proof-only commit, then a commit that changes the definitions, adds a
\* proof file that its parent does not have and deletes another
RepoAddDelete ==
    << MkCommit(Sha("4", "d"), <<>>,
           MkTree(Blob(TRUE, 0, 0, 0, 1), Blob(FALSE, 0, 0, 2, 1),
                  Absent, Blob(FALSE, 0, 0, 0, 1))),
       MkCommit(Sha("5", "e"), <<1>>,
           MkTree(Blob(TRUE, 0, 0, 0, 1), Blob(FALSE, 0, 0, 2, 2),
                  Absent, Blob(FALSE, 0, 0, 0, 1))),
       MkCommit(Sha("6", "f"), <<2>>,
           MkTree(Blob(TRUE, 0, 0, 0, 2), Absent,
                  Blob(FALSE, 1, 1, 0, 1), Blob(FALSE, 0, 0, 0, 1))) >>

\* a file that only becomes a definition file in the newest commit
RepoLateDefs ==
    << MkCommit(Sha("7", "a"), <<>>,
           MkTree(Blob(FALSE, 0, 0, 0, 1), Blob(FALSE, 1, 0, 0, 1),
                  Absent, Absent)),
       MkCommit(Sha("8", "b"), <<1>>,
           MkTree(Blob(FALSE, 0, 0, 0, 2), Blob(FALSE, 1, 0, 0, 2),
                  Absent, Absent)),
       MkCommit(Sha("9", "c"), <<2>>,
           MkTree(Blob(TRUE, 0, 0, 0, 3), Blob(FALSE, 1, 0, 0, 2),
                  Absent, Absent)) >>

\* a root with a definition file, a proof file and a file that is both and
\* has tactic blocks but no theorem or lemma; the second commit changes that
\* last file alone
RepoBothLists ==
    << MkCommit(Sha("a", "1"), <<>>,
           MkTree(Blob(TRUE, 0, 0, 0, 1), Blob(FALSE, 1, 0, 0, 1),
                  Blob(TRUE, 0, 0, 1, 1), Absent)),
       MkCommit(Sha("b", "2"), <<1>>,
           MkTree(Blob(TRUE, 0, 0, 0, 1), Blob(FALSE, 1, 0, 0, 1),
                  Blob(TRUE, 0, 0, 2, 2), Absent)) >>

Repos == {RepoSameStem, RepoAddDelete, RepoLateDefs, RepoBothLists}

(***************************************************************************)
(* Text constants of verification.py.                                      *)
(***************************************************************************)
VP_type_mismatch ==
    <<"t", "y", "p", "e", " ", "m", "i", "s", "m", "a", "t", "c", "h">>
VP_failed_to_synthesize ==
    <<"f", "a", "i", "l", "e", "d", " ", "t", "o", " ", "s", "y", "n", "t", "h", "e", "s", "i", "z", "e">>
VP_unsolved_goals ==
    <<"u", "n", "s", "o", "l", "v", "e", "d", " ", "g", "o", "a", "l", "s">>
VP_tactic ==
    <<"t", "a", "c", "t", "i", "c">>
VP_unknown_identifier ==
    <<"u", "n", "k", "n", "o", "w", "n", " ", "i", "d", "e", "n", "t", "i", "f", "i", "e", "r">>
VP_application_type_mismatch ==
    <<"a", "p", "p", "l", "i", "c", "a", "t", "i", "o", "n", " ", "t", "y", "p", "e", " ", "m", "i", "s", "m", "a", "t", "c", "h">>
VP_invalid ==
    <<"i", "n", "v", "a", "l", "i", "d">>
XP_import ==
    <<"e", "r", "r", "o", "r", ":", " ", "i", "m", "p", "o", "r", "t">>
XP_unknown_package ==
    <<"e", "r", "r", "o", "r", ":", " ", "u", "n", "k", "n", "o", "w", "n", " ", "p", "a", "c", "k", "a", "g", "e">>
XP_file_not_found ==
    <<"e", "r", "r", "o", "r", ":", " ", "f", "i", "l", "e", " ", "n", "o", "t", " ", "f", "o", "u", "n", "d">>
XP_syntax_error ==
    <<"s", "y", "n", "t", "a", "x", " ", "e", "r", "r", "o", "r">>

verification_patterns ==
    {VP_type_mismatch, VP_failed_to_synthesize, VP_unsolved_goals, VP_tactic,
     VP_unknown_identifier, VP_application_type_mismatch, VP_invalid}

exclude_patterns ==
    {XP_import, XP_unknown_package, XP_file_not_found, XP_syntax_error}

ErrorMarker ==
    <<":", " ", "e", "r", "r", "o", "r", ":">>
BuildTimedOut ==
    <<"B", "u", "i", "l", "d", " ", "t", "i", "m", "e", "d", " ", "o", "u", "t">>
UnknownError ==
    <<"U", "n", "k", "n", "o", "w", "n", " ", "e", "r", "r", "o", "r">>
ExceptionPrefix ==
    <<"E", "x", "c", "e", "p", "t", "i", "o", "n", ":", " ">>

\* Python None in a `str | None` field
None == <<"None">>

\* falsy values of a `str | None`
Falsy(x) == x = None \/ x = <<>>

(***************************************************************************)
(* What the external build tool can write to stderr, and the message of an *)
(* exception raised while launching it.                                    *)
(***************************************************************************)
StderrTypeMismatch ==
    <<"P", ".", "l", "e", "a", "n", ":", "3", ":", "2", ":", " ", "e", "r", "r", "o", "r", ":", " ", "t", "y", "p", "e", " ", "m", "i", "s", "m", "a", "t", "c", "h">>
StderrUnknownPackage ==
    <<"e", "r", "r", "o", "r", ":", " ", "u", "n", "k", "n", "o", "w", "n", " ", "p", "a", "c", "k", "a", "g", "e">>
ExcNoLake ==
    <<"N", "o", " ", "s", "u", "c", "h", " ", "f", "i", "l", "e", ":", " ", "l", "a", "k", "e">>

\* a missing package reported before the proof failure of the target
StderrPackageAndMismatch ==
    StderrUnknownPackage \o <<"\n">> \o StderrTypeMismatch

StderrSamples ==
    {StderrTypeMismatch, StderrUnknownPackage, StderrPackageAndMismatch}

\* a byte that is not valid UTF-8 where the output was cut off, and the
\* replacement character bytes.decode(errors="replace") puts in its place
InvalidByte == "0xE2"
ReplacementChar == "U+FFFD"

\* TimeoutExpired.stderr: None when nothing was captured, bytes otherwise
TimeoutStderr == {None, StderrTypeMismatch \o <<InvalidByte>>}

\* outcomes of subprocess.run(cmd, capture_output=True, text=True, timeout=t)
ProcOutcomes ==
    {[kind |-> "exit", returncode |-> 0, stderr |-> <<>>]}
    \cup {[kind |-> "exit", returncode |-> 1, stderr |-> s] : s \in StderrSamples}
    \cup {[kind |-> "timeout", returncode |-> 0, stderr |-> s] :
              s \in TimeoutStderr}
    \cup {[kind |-> "raise", returncode |-> 0, stderr |-> ExcNoLake]}

\* no subprocess has run
NoProc == [kind |-> "none", returncode |-> 0, stderr |-> <<>>]

(***************************************************************************)
(* verification.py                                                         *)
(***************************************************************************)
\* str.lower() on one character
LowerChar(c) ==
    CASE c = "A" -> "a" [] c = "B" -> "b" [] c = "C" -> "c" [] c = "D" -> "d"
      [] c = "E" -> "e" [] c = "F" -> "f" [] c = "G" -> "g" [] c = "H" -> "h"
      [] c = "I" -> "i" [] c = "J" -> "j" [] c = "K" -> "k" [] c = "L" -> "l"
      [] c = "M" -> "m" [] c = "N" -> "n" [] c = "O" -> "o" [] c = "P" -> "p"
      [] c = "Q" -> "q" [] c = "R" -> "r" [] c = "S" -> "s" [] c = "T" -> "t"
      [] c = "U" -> "u" [] c = "V" -> "v" [] c = "W" -> "w" [] c = "X" -> "x"
      [] c = "Y" -> "y" [] c = "Z" -> "z" [] OTHER -> c

Lower(s) == [i \in 1..Len(s) |-> LowerChar(s[i])]

\* str.strip() is non-empty: some character is not whitespace
HasNonSpace(s) == \E i \in 1..Len(s) : s[i] \notin {" ", "\n", "\t"}

\* str.split("\n")
RECURSIVE SplitFrom(_, _)
SplitFrom(s, from) ==
    LET breaks == {i \in from..Len(s) : s[i] = "\n"}
        first == CHOOSE i \in breaks : \A j \in breaks : i <= j
    IN  IF breaks = {} THEN <<SubSeq(s, from, Len(s))>>
        ELSE <<SubSeq(s, from, first - 1)>> \o SplitFrom(s, first + 1)

\* the lines of cur followed by s
SplitLines(s, cur) == SplitFrom(cur \o s, 1)

\* as parse_lean_error, but a line counts as an error line when it holds
\* "error:" anywhere
parse_lean_error_any_error_marker(stderr) ==
    LET lines == SplitLines(stderr, <<>>)
        error_lines == SelectSeq(lines,
                           LAMBDA line : Contains(line, Tail(Tail(ErrorMarker))))
        non_empty_lines == SelectSeq(lines, HasNonSpace)
    IN  IF error_lines # <<>> THEN error_lines[1]
        ELSE IF non_empty_lines # <<>> THEN Prefix(non_empty_lines[1], 200)
        ELSE IF stderr # <<>> THEN Prefix(stderr, 200)
        ELSE UnknownError

parse_lean_error(stderr) ==
    LET lines == SplitLines(stderr, <<>>)
        error_lines == SelectSeq(lines, LAMBDA line : Contains(line, ErrorMarker))
        non_empty_lines == SelectSeq(lines, HasNonSpace)
    IN  IF error_lines # <<>> THEN error_lines[1]
        ELSE IF non_empty_lines # <<>> THEN Prefix(non_empty_lines[1], 200)
        ELSE IF stderr # <<>> THEN Prefix(stderr, 200)
        ELSE UnknownError

\* as is_verification_error, but the letter case of stderr is kept
is_verification_error_case_sensitive(stderr) ==
    IF \E pattern \in exclude_patterns : Contains(stderr, pattern)
    THEN FALSE
    ELSE \E pattern \in verification_patterns : Contains(stderr, pattern)

\* as is_verification_error, without the exclusion of infrastructure errors
is_verification_error_no_exclude(stderr) ==
    LET stderr_lower == Lower(stderr)
    IN  \E pattern \in verification_patterns : Contains(stderr_lower, pattern)

is_verification_error(stderr) ==
    LET stderr_lower == Lower(stderr)
    IN  IF \E pattern \in exclude_patterns : Contains(stderr_lower, pattern)
        THEN FALSE
        ELSE \E pattern \in verification_patterns : Contains(stderr_lower, pattern)

\* bytes.decode("utf-8", errors="replace")
DecodeReplace(bytes) ==
    [i \in 1..Len(bytes) |->
        IF bytes[i] = InvalidByte THEN ReplacementChar ELSE bytes[i]]

\* as run_lake_build, without the handler of TimeoutExpired: the timeout is
\* caught by the handler of Exception
run_lake_build_no_timeout_handler(proc) ==
    CASE proc.kind = "exit" ->
            [success |-> proc.returncode = 0,
             stderr |-> proc.stderr,
             error_message |-> IF proc.returncode = 0 THEN None
                               ELSE parse_lean_error(proc.stderr),
             timeout |-> FALSE]
      [] OTHER ->
            [success |-> FALSE,
             stderr |-> proc.stderr,
             error_message |-> ExceptionPrefix \o proc.stderr,
             timeout |-> FALSE]

\* the VerificationResult run_lake_build returns for a subprocess outcome
run_lake_build(proc) ==
    CASE proc.kind = "exit" ->
            [success |-> proc.returncode = 0,
             stderr |-> proc.stderr,
             error_message |-> IF proc.returncode = 0 THEN None
                               ELSE parse_lean_error(proc.stderr),
             timeout |-> FALSE]
      [] proc.kind = "timeout" ->
            [success |-> FALSE,
             stderr |-> IF Falsy(proc.stderr) THEN <<>>
                        ELSE DecodeReplace(proc.stderr),
             error_message |-> BuildTimedOut,
             timeout |-> TRUE]
      [] OTHER ->
            [success |-> FALSE,
             stderr |-> proc.stderr,
             error_message |-> ExceptionPrefix \o proc.stderr,
             timeout |-> FALSE]

\* no build has run yet for the current proof file
NoResult ==
    [success |-> FALSE, stderr |-> <<>>, error_message |-> None, timeout |-> FALSE]

(***************************************************************************)
(* git_ops.py                                                              *)
(***************************************************************************)
\* repo.iter_commits(start_ref): commit indices, newest first
get_commit_iterator(r) == [i \in 1..Len(r) |-> Len(r) - i + 1]

\* repo.commit(commit_hash)
CommitByHash(r, h) == CHOOSE c \in 1..Len(r) : r[c].hexsha = h

\* parent.diff(commit): one entry per path whose blob differs
TreeDiff(r, p, c) ==
    LET changed == SelectSeq(FileOrder, LAMBDA f : r[p].tree[f] # r[c].tree[f])
    IN  [i \in 1..Len(changed) |-> [a_path |-> changed[i], b_path |-> changed[i]]]

RECURSIVE DiffPaths(_)
DiffPaths(diffs) ==
    IF diffs = <<>> THEN <<>>
    ELSE LET diff == Head(diffs)
         IN  (IF EndsWithLean(diff.a_path) THEN <<diff.a_path>>
              ELSE IF EndsWithLean(diff.b_path) THEN <<diff.b_path>>
              ELSE <<>>) \o DiffPaths(Tail(diffs))

\* as get_modified_files, but every commit is treated like the initial one
get_modified_files_all_tracked(r, c) ==
    SelectSeq(FileOrder, LAMBDA f : r[c].tree[f].exists /\ EndsWithLean(f))

\* current_files of get_modified_files(commit)
get_modified_files(r, c) ==
    IF r[c].parents = <<>>
    THEN SelectSeq(FileOrder, LAMBDA f : r[c].tree[f].exists /\ EndsWithLean(f))
    ELSE DiffPaths(TreeDiff(r, r[c].parents[1], c))

\* as safe_checkout, but without force: a file that is on disk in its
\* parent-commit version is carried over instead of being overwritten
safe_checkout_keeps_local(wt, r, c) ==
    [f \in Files |->
        IF r[c].parents # <<>> /\ wt[f] = r[r[c].parents[1]].tree[f]
        THEN wt[f] ELSE r[c].tree[f]]

\* working tree after `git checkout --force <commit>`
safe_checkout(wt, r, c) == [f \in Files |-> r[c].tree[f]]

\* `git checkout <parent> -- <file>` knows the path
PathKnown(r, c, f) == r[c].tree[f].exists

\* as RestoreSucceeds, but without the guard on commit.parents
RestoreSucceeds_no_parent_guard(r, c, f, gitOk) ==
    /\ r[c].parents = <<>> \/ PathKnown(r, r[c].parents[1], f)
    /\ gitOk

\* restore_file_from_parent returns True
RestoreSucceeds(r, c, f, gitOk) ==
    /\ r[c].parents # <<>>
    /\ PathKnown(r, r[c].parents[1], f)
    /\ gitOk

\* the blob `git checkout <parent> -- <file>` writes; nothing without a parent
ParentBlob(r, c, f) ==
    IF r[c].parents = <<>> THEN Absent ELSE r[r[c].parents[1]].tree[f]

\* as restore_file_from_parent, but the checkout is not narrowed to the path
restore_whole_parent_tree(wt, r, c, f, gitOk) ==
    IF RestoreSucceeds(r, c, f, gitOk)
    THEN [g \in Files |-> ParentBlob(r, c, g)]
    ELSE wt

\* working tree after restore_file_from_parent
restore_file_from_parent(wt, r, c, f, gitOk) ==
    IF RestoreSucceeds(r, c, f, gitOk)
    THEN [wt EXCEPT ![f] = ParentBlob(r, c, f)]
    ELSE wt

(***************************************************************************)
(* file_classifier.py                                                      *)
(***************************************************************************)
\* a path is excluded when one of its directories is on the exclusion list
should_exclude_path(f, exclude_paths) ==
    \E i \in 1..Len(f.parent) : f.parent[i] \in exclude_paths

\* FileClassification of the file as it is on disk
classify_file(f, blob) ==
    [path |-> f,
     is_definition |-> blob.defs,
     is_proof |-> blob.theorems > 0 \/ blob.lemmas > 0 \/ blob.tactics > 0,
     theorem_count |-> blob.theorems,
     lemma_count |-> blob.lemmas,
     tactic_block_count |-> blob.tactics]

(***************************************************************************)
(* snapshot.py and the values validate_candidate derives                   *)
(***************************************************************************)
\* capture_codebase_snapshot(repo_path): every .lean file on disk
capture_codebase_snapshot(wt) ==
    [f \in {g \in Files : EndsWithLean(g) /\ wt[g].exists} |-> wt[f]]

\* get_file_diff when git succeeds
get_file_diff(r, c, f) ==
    IF r[c].parents = <<>>
    THEN [kind |-> "content", old |-> Absent, new |-> r[c].tree[f]]
    ELSE [kind |-> "diff", old |-> r[r[c].parents[1]].tree[f], new |-> r[c].tree[f]]

\* get_file_diff when git fails with GitCommandError: the empty string
EmptyDiff == [kind |-> "empty", old |-> Absent, new |-> Absent]

\* str(proof_file).replace("/", ".").replace(".lean", "")
ModuleName(f) ==
    f.parent \o <<f.stem>> \o (IF f.suffix = ".lean" THEN <<>> ELSE <<f.suffix>>)

\* f"{candidate.commit_hash[:8]}_{file_name}"
TaskId(commit_hash, proof_file) ==
    Prefix(commit_hash, 8) \o <<"_">> \o <<Stem(proof_file)>>

\* skipped_reasons[reason] = skipped_reasons.get(reason, 0) + 1
Incr(d, reason) ==
    [k \in DOMAIN d \cup {reason} |->
        IF k = reason THEN (IF reason \in DOMAIN d THEN d[reason] ELSE 0) + 1
        ELSE d[k]]

EmptyDict == [k \in {} |-> 0]

(***************************************************************************)
(* jsonl_writer.py.  A file is the list of its lines; a line is the object *)
(* json.dumps serialises.                                                  *)
(***************************************************************************)
\* str(path)
PathStr(f) == f.parent \o <<f.stem, f.suffix>>

format_challenge_jsonl(challenge) ==
    LET def_files_str ==
            [i \in 1..Len(challenge.definition_files) |->
                PathStr(challenge.definition_files[i])]
        instructions ==
            <<"The definitions in ", def_files_str,
              " have changed, breaking the proof in ",
              PathStr(challenge.proof_file),
              ". Update the proof to restore verification.">>
    IN  [task_id |-> challenge.task_id,
         metadata |->
            [original_commit |-> challenge.commit_hash,
             author_fix_diff |-> challenge.author_fix_diff,
             error_message |-> challenge.error_message,
             definition_files |-> def_files_str,
             proof_file |-> PathStr(challenge.proof_file)],
         setup |->
            [instructions |-> instructions,
             codebase_state |-> challenge.codebase_snapshot],
         verification |->
            [command |-> challenge.verification_command,
             expected_output |-> "Success",
             timeout_seconds |-> 300]]

\* the file open(output_path, "w") leaves behind
write_challenges(chs) ==
    [exists |-> TRUE,
     lines |-> [i \in 1..Len(chs) |-> format_challenge_jsonl(chs[i])]]

\* no file at output_path
NoFile == [exists |-> FALSE, lines |-> <<>>]

\* the output of an earlier run over another history
StaleOutput ==
    write_challenges(
        <<[task_id |-> TaskId(Sha("0", "0"), CurveBasic),
           commit_hash |-> Sha("0", "0"),
           proof_file |-> CurveBasic,
           definition_files |-> <<DefsFile>>,
           author_fix_diff |-> EmptyDiff,
           error_message |-> UnknownError,
           codebase_snapshot |-> capture_codebase_snapshot(RepoSameStem[1].tree),
           verification_command |-> <<"lake", "build", ModuleName(CurveBasic)>>]>>)

(***************************************************************************)
(* State.                                                                  *)
(***************************************************************************)
VARIABLES
    repo,             \* the commit history (read-only)
    head,             \* commit HEAD points at
    tree,             \* working tree: path -> blob on disk
    config,           \* Config after from_file()
    limit,            \* --limit argument of run_mining
    dry_run,          \* --dry-run argument of run_mining
    pc,               \* position in run_mining / validate_candidate
    processed,        \* identify_candidates: commits taken from the iterator
    classified,       \* history: the (commit, path) pairs given to classify_file
    total_commits,    \* run_mining: statistic computed before Phase A
    candidates,       \* list of CommitCandidate
    ci,               \* run_mining: index i of the candidate loop
    pi,               \* validate_candidate: index into candidate.proof_files
    challenges,       \* validate_candidate: local list
    all_challenges,   \* run_mining: accumulated challenges
    skipped_reasons,  \* run_mining: reason -> count
    result_fixed,     \* validate_candidate: baseline VerificationResult
    result_broken,    \* validate_candidate: broken-state VerificationResult
    author_fix_diff,  \* validate_candidate: local
    result,           \* the MiningResult run_mining returns
    log,              \* history: steps taken for the current proof file
    restore_pending,  \* history: a revert succeeded and no restore ran since
    cand_failed,      \* history: a recoverable failure hit the current candidate
    last_op,          \* history: last direct call of a git_ops function
    env,              \* what the external tools (git, lake, filesystem) may do
    output_file,      \* content of config.output.output_file on disk
    run,              \* number of the run_mining call in progress
    first_result,     \* the MiningResult of the first run_mining call
    raised,           \* history: candidates whose validate_candidate raised
    last_broken,      \* history: subprocess outcome of the last broken-state build
    given_stderr,     \* the stderr text handed to the functions of verification.py
    verdict,          \* what is_verification_error returned, once called
    parsed,           \* what parse_lean_error returned, once called
    tool_call,        \* an insertion tool's arguments and result, once called
    sample,           \* rawdog run_agent: sample.hints_removed
    max_iterations,   \* rawdog run_agent: the iteration limit
    messages,         \* rawdog run_agent: the message history
    rpc,              \* rawdog run_agent: position in the function
    iteration,        \* rawdog run_agent: loop counter
    attempts,         \* rawdog run_agent: verify_dafny calls counted
    success,          \* rawdog run_agent: a verification succeeded
    final_code,       \* rawdog run_agent: code returned in the AgentResult
    hints_done,       \* history: hint lines the insert_* calls reported inserted
    submitted,        \* history: codes handed to the verifier, oldest first
    model_calls,      \* history: calls of client.messages.create
    state_codes       \* history: codes passed to update_code_state, oldest first

vars ==
    <<repo, head, tree, config, limit, dry_run, pc, processed, classified,
      total_commits,
      candidates, ci, pi, challenges, all_challenges, skipped_reasons,
      result_fixed, result_broken, author_fix_diff, result, log,
      restore_pending, cand_failed, last_op, env, output_file, run,
      first_result, raised, last_broken, given_stderr, verdict, parsed,
      tool_call,
      sample, max_iterations, messages,
      rpc, iteration, attempts, success, final_code, hints_done, submitted,
      model_calls, state_codes>>

inputVars == <<repo, limit, dry_run, env>>
runVars == <<run, first_result>>
agentVars ==
    <<sample, max_iterations, rpc, iteration, attempts, success, final_code,
      hints_done, submitted, model_calls>>
rawdogVars == <<agentVars, messages, state_codes>>
callVars == <<given_stderr, verdict, parsed, tool_call>>
phaseAVars == <<processed, candidates, classified>>
phaseBVars ==
    <<ci, pi, challenges, all_challenges, skipped_reasons, result_fixed,
      result_broken, author_fix_diff, log, restore_pending, cand_failed,
      raised, last_broken>>

NoOp == [op |-> "none", commit |-> 0, file |-> Readme, ok |-> FALSE,
         head_before |-> 0, before |-> <<>>, prev_op |-> "none",
         prev_commit |-> 0, prev_ok |-> FALSE]

Configs ==
    [max_commits : 0..MaxCommitsCfg,
     min_theorem_count : 1..MaxThreshold,
     min_tactic_blocks : 1..MaxThreshold,
     exclude_paths : {{}, {"Field"}}]

InitRun ==
    /\ repo \in Repos
    /\ head \in 1..Len(repo)
    /\ tree = repo[head].tree
    /\ config \in Configs
    /\ limit \in {-1} \cup 1..MaxLimit
    /\ dry_run \in BOOLEAN
    /\ pc = "start"
    /\ processed = 0
    /\ classified = {}
    /\ total_commits = 0
    /\ candidates = <<>>
    /\ ci = 1
    /\ pi = 1
    /\ challenges = <<>>
    /\ all_challenges = <<>>
    /\ skipped_reasons = EmptyDict
    /\ result_fixed = NoResult
    /\ result_broken = NoResult
    /\ author_fix_diff = EmptyDiff
    /\ result = None
    /\ log = <<>>
    /\ restore_pending = FALSE
    /\ cand_failed = FALSE
    /\ last_op = NoOp
    /\ output_file \in {NoFile, StaleOutput}
    /\ run = 1
    /\ first_result = None
    /\ raised = {}
    /\ last_broken = NoProc

\* run_agent has not been called
RawdogIdle ==
    /\ sample = None
    /\ max_iterations = 0
    /\ messages = <<>>
    /\ rpc = "idle"
    /\ iteration = 0
    /\ attempts = 0
    /\ success = FALSE
    /\ final_code = None
    /\ hints_done = <<>>
    /\ submitted = <<>>
    /\ model_calls = 0
    /\ state_codes = <<>>

\* any outcome of every external call
\* no direct call of a function of verification.py
CallsIdle ==
    /\ given_stderr = <<>>
    /\ verdict = <<>>
    /\ parsed = <<>>
    /\ tool_call = <<>>

Init ==
    /\ InitRun
    /\ env = "any"
    /\ RawdogIdle
    /\ CallsIdle

(***************************************************************************)
(* The environment.  Under "any" every external call may take each of its  *)
(* outcomes; under "deterministic" git works and the build tool is a       *)
(* function of the working tree and the target.                            *)
(***************************************************************************)
GitOutcomes == IF env = "deterministic" THEN {TRUE} ELSE BOOLEAN

\* a build tool that accepts a proof file exactly when it is of the same
\* revision as the definitions on disk
LakeOracle(wt, f) ==
    IF wt[f].exists /\ wt[DefsFile].exists /\ wt[f].rev = wt[DefsFile].rev
    THEN [kind |-> "exit", returncode |-> 0, stderr |-> <<>>]
    ELSE [kind |-> "exit", returncode |-> 1, stderr |-> StderrTypeMismatch]

LakeOutcomes(wt, f) ==
    IF env = "deterministic" THEN {LakeOracle(wt, f)} ELSE ProcOutcomes

\* whether a library call that can fail (a git diff, a directory walk) does
FaultOutcomes == IF env = "deterministic" THEN {FALSE} ELSE BOOLEAN

(***************************************************************************)
(* run_mining, lines 225-255: CLI overrides and the commit count.          *)
(***************************************************************************)
Start ==
    /\ pc = "start"
    /\ LET max_commits == IF limit > 0 THEN limit ELSE config.max_commits
       IN  /\ config' = [config EXCEPT !.max_commits = max_commits]
           /\ total_commits' = IF max_commits > 0
                               THEN Min(Len(repo), max_commits)
                               ELSE Len(repo)
    /\ pc' = "phase_a"
    /\ UNCHANGED <<inputVars, rawdogVars, callVars, runVars, output_file, head, tree, phaseAVars, phaseBVars, result, last_op>>

(***************************************************************************)
(* identify_candidates                                                     *)
(***************************************************************************)
\* as FilterExcluded, but every path is kept
FilterExcluded_keeps_all(files, cfg) == files

\* lines 67-71: drop excluded paths
FilterExcluded(files, cfg) ==
    SelectSeq(files, LAMBDA f : ~should_exclude_path(f, cfg.exclude_paths))

\* as MeetsThreshold, but the tactic blocks must come with enough theorems
\* or lemmas
MeetsThreshold_needs_both(classification, cfg) ==
    /\ \/ classification.theorem_count >= cfg.min_theorem_count
       \/ classification.lemma_count >= cfg.min_theorem_count
    /\ classification.tactic_block_count >= cfg.min_tactic_blocks

\* lines 95-100: a proof file counts only above a threshold
MeetsThreshold(classification, cfg) ==
    \/ classification.theorem_count >= cfg.min_theorem_count
    \/ classification.lemma_count >= cfg.min_theorem_count
    \/ classification.tactic_block_count >= cfg.min_tactic_blocks

\* lines 82-101: the classification loop over current_files
RECURSIVE ClassifyLoop(_, _, _, _)
ClassifyLoop(files, wt, cfg, acc) ==
    IF files = <<>> THEN acc
    ELSE LET file_path == Head(files)
             classification == classify_file(file_path, wt[file_path])
             defs == IF classification.is_definition
                     THEN Append(acc.definition_files, file_path)
                     ELSE acc.definition_files
             proofs == IF classification.is_proof
                          /\ MeetsThreshold(classification, cfg)
                       THEN Append(acc.proof_files, file_path)
                       ELSE acc.proof_files
         IN  IF ~wt[file_path].exists
             THEN ClassifyLoop(Tail(files), wt, cfg, acc)
             ELSE ClassifyLoop(Tail(files), wt, cfg,
                      [definition_files |-> defs, proof_files |-> proofs,
                       classified |-> acc.classified \cup {file_path}])

\* lines 82-86: the (commit, path) pairs for which classify_file is called
ClassifiedIn(r, c, wt, cfg) ==
    LET current_files == FilterExcluded(get_modified_files(r, c), cfg)
        lists == ClassifyLoop(current_files, wt, cfg,
                     [definition_files |-> <<>>, proof_files |-> <<>>,
                      classified |-> {}])
    IN  {[commit |-> c, path |-> f] : f \in lists.classified}

\* as IdentifyCommit, but a candidate needs only one of the two lists
IdentifyCommit_either_list(r, c, wt, cfg, cands) ==
    LET current_files == FilterExcluded(get_modified_files(r, c), cfg)
        lists == ClassifyLoop(current_files, wt, cfg,
                     [definition_files |-> <<>>, proof_files |-> <<>>,
                      classified |-> {}])
    IN  IF current_files = <<>> THEN cands
        ELSE IF lists.definition_files # <<>> \/ lists.proof_files # <<>>
        THEN Append(cands, [commit_hash |-> r[c].hexsha,
                            definition_files |-> lists.definition_files,
                            proof_files |-> lists.proof_files])
        ELSE cands

\* lines 63-116: the loop body for one commit; the new list of candidates
IdentifyCommit(r, c, wt, cfg, cands) ==
    LET current_files == FilterExcluded(get_modified_files(r, c), cfg)
        lists == ClassifyLoop(current_files, wt, cfg,
                     [definition_files |-> <<>>, proof_files |-> <<>>,
                      classified |-> {}])
    IN  IF current_files = <<>> THEN cands
        ELSE IF lists.definition_files # <<>> /\ lists.proof_files # <<>>
        THEN Append(cands, [commit_hash |-> r[c].hexsha,
                            definition_files |-> lists.definition_files,
                            proof_files |-> lists.proof_files])
        ELSE cands

\* get_modified_files, git_ops.py line 52: parent.diff(commit) runs git and
\* is not inside a try; the root commit is read without a diff
DiffFaults(r, c) == IF r[c].parents = <<>> THEN {FALSE} ELSE FaultOutcomes

\* as PhaseA_Commit, but the walk is cut off one commit early
PhaseA_Commit_cuts_early ==
    /\ pc = "phase_a"
    /\ processed < Len(get_commit_iterator(repo))
    /\ processed' = processed + 1
    /\ IF config.max_commits > 0 /\ processed' >= config.max_commits
       THEN /\ pc' = "phase_a_done"
            /\ UNCHANGED <<candidates, classified>>
       ELSE \E raises \in DiffFaults(repo, get_commit_iterator(repo)[processed']) :
               IF raises
               THEN /\ pc' = "crashed"
                    /\ UNCHANGED <<candidates, classified>>
               ELSE /\ pc' = "phase_a"
                    /\ candidates' = IdentifyCommit(repo,
                                         get_commit_iterator(repo)[processed'],
                                         tree, config, candidates)
                    /\ classified' = classified \cup
                           ClassifiedIn(repo,
                               get_commit_iterator(repo)[processed'],
                               tree, config)
    /\ UNCHANGED <<inputVars, rawdogVars, callVars, runVars, output_file, head, tree, config, total_commits, phaseBVars,
                   result, last_op>>

\* one iteration of the loop over the commit iterator; an exception of
\* get_modified_files leaves identify_candidates and run_mining
PhaseA_Commit ==
    /\ pc = "phase_a"
    /\ processed < Len(get_commit_iterator(repo))
    /\ processed' = processed + 1
    /\ IF config.max_commits > 0 /\ processed' > config.max_commits
       THEN /\ pc' = "phase_a_done"
            /\ UNCHANGED <<candidates, classified>>
       ELSE \E raises \in DiffFaults(repo, get_commit_iterator(repo)[processed']) :
               IF raises
               THEN /\ pc' = "crashed"
                    /\ UNCHANGED <<candidates, classified>>
               ELSE /\ pc' = "phase_a"
                    /\ candidates' = IdentifyCommit(repo,
                                         get_commit_iterator(repo)[processed'],
                                         tree, config, candidates)
                    /\ classified' = classified \cup
                           ClassifiedIn(repo,
                               get_commit_iterator(repo)[processed'],
                               tree, config)
    /\ UNCHANGED <<inputVars, rawdogVars, callVars, runVars, output_file, head, tree, config, total_commits, phaseBVars,
                   result, last_op>>

\* the iterator is exhausted
PhaseA_Exhausted ==
    /\ pc = "phase_a"
    /\ processed = Len(get_commit_iterator(repo))
    /\ pc' = "phase_a_done"
    /\ UNCHANGED <<inputVars, rawdogVars, callVars, runVars, output_file, head, tree, config, total_commits, phaseAVars,
                   phaseBVars, result, last_op>>

MiningResult(n_total, n_cands, chs, skipped) ==
    [total_commits |-> n_total, candidates |-> n_cands,
     valid_challenges |-> Len(chs), challenges |-> chs,
     skipped_reasons |-> skipped]

\* as PhaseA_Return, but the dry-run flag is not looked at
PhaseA_Return_ignores_dry_run ==
    /\ pc = "phase_a_done"
    /\ result' = result
    /\ pc' = "cand_loop"
    /\ UNCHANGED <<inputVars, rawdogVars, callVars, runVars, output_file, head, tree, config,
                   total_commits, phaseAVars, phaseBVars, last_op>>

\* run_mining, lines 258-274: return of Phase A, dry-run exit
PhaseA_Return ==
    /\ pc = "phase_a_done"
    /\ IF dry_run
       THEN /\ result' = MiningResult(total_commits, Len(candidates), <<>>, EmptyDict)
            /\ pc' = "done"
       ELSE /\ result' = result
            /\ pc' = "cand_loop"
    /\ UNCHANGED <<inputVars, rawdogVars, callVars, runVars, output_file, head, tree, config, total_commits, phaseAVars,
                   phaseBVars, last_op>>

(***************************************************************************)
(* run_mining, Phase B loop, and validate_candidate                        *)
(***************************************************************************)
candidate == candidates[ci]
commit == CommitByHash(repo, candidate.commit_hash)
proof_file == candidate.proof_files[pi]

\* as Account, but the challenges are put in front of the earlier ones
Account_puts_in_front(chs) ==
    IF chs # <<>>
    THEN /\ all_challenges' = chs \o all_challenges
         /\ skipped_reasons' = skipped_reasons
    ELSE /\ all_challenges' = all_challenges
         /\ skipped_reasons' = Incr(skipped_reasons, "no_verification_error")

\* as Account, but a candidate with challenges is counted as skipped too
Account_counts_every_candidate(chs) ==
    /\ all_challenges' = all_challenges \o chs
    /\ skipped_reasons' = Incr(skipped_reasons, "no_verification_error")

\* run_mining, lines 288-295: validate_candidate returned chs
Account(chs) ==
    IF chs # <<>>
    THEN /\ all_challenges' = all_challenges \o chs
         /\ skipped_reasons' = skipped_reasons
    ELSE /\ all_challenges' = all_challenges
         /\ skipped_reasons' = Incr(skipped_reasons, "no_verification_error")

\* as AccountException, but counted under the other reason
AccountException_wrong_reason ==
    /\ all_challenges' = all_challenges
    /\ skipped_reasons' = Incr(skipped_reasons, "no_verification_error")

\* run_mining, lines 297-300: validate_candidate raised
AccountException ==
    /\ all_challenges' = all_challenges
    /\ skipped_reasons' = Incr(skipped_reasons, "exception")

\* `continue` or the end of the loop body over proof files
NextProofFile ==
    /\ pi' = pi + 1
    /\ pc' = "proof_loop"
    /\ result_fixed' = NoResult
    /\ result_broken' = NoResult
    /\ author_fix_diff' = EmptyDiff

\* as B_Checkout, but the result of safe_checkout is not looked at
B_Checkout_ignores_failure ==
    /\ pc = "cand_loop"
    /\ ci <= Len(candidates)
    /\ \E gitOk \in GitOutcomes :
          /\ IF gitOk
             THEN /\ tree' = safe_checkout(tree, repo, commit)
                  /\ head' = commit
                  /\ cand_failed' = FALSE
             ELSE /\ UNCHANGED <<tree, head>>
                  /\ cand_failed' = TRUE
          /\ pi' = 1
          /\ challenges' = <<>>
          /\ pc' = "proof_loop"
          /\ UNCHANGED <<ci, all_challenges, skipped_reasons>>
    /\ log' = <<>>
    /\ last_broken' = NoProc
    /\ UNCHANGED <<inputVars, rawdogVars, callVars, runVars, output_file, config, total_commits,
                   phaseAVars, result_fixed, result_broken, author_fix_diff,
                   result, restore_pending, last_op, raised>>

\* lines 276-286 and 138-143: next candidate, checkout of the fixed state
B_Checkout ==
    /\ pc = "cand_loop"
    /\ ci <= Len(candidates)
    /\ \E gitOk \in GitOutcomes :
          IF gitOk
          THEN /\ tree' = safe_checkout(tree, repo, commit)
               /\ head' = commit
               /\ pi' = 1
               /\ challenges' = <<>>
               /\ pc' = "proof_loop"
               /\ cand_failed' = FALSE
               /\ UNCHANGED <<ci, all_challenges, skipped_reasons>>
          ELSE /\ Account(<<>>)
               /\ ci' = ci + 1
               /\ cand_failed' = TRUE
               /\ UNCHANGED <<tree, head, pi, challenges, pc>>
    /\ log' = <<>>
    /\ last_broken' = NoProc
    /\ UNCHANGED <<inputVars, rawdogVars, callVars, runVars, output_file, config, total_commits,
                   phaseAVars, result_fixed, result_broken, author_fix_diff,
                   result, restore_pending, last_op, raised>>

\* as B_Baseline, but a failed baseline does not end the work on the file
B_Baseline_goes_on ==
    /\ pc = "proof_loop"
    /\ pi <= Len(candidate.proof_files)
    /\ \E proc \in LakeOutcomes(tree, proof_file) :
          LET res == run_lake_build(proc)
          IN  IF ~res.success
              THEN /\ result_fixed' = res
                   /\ pc' = "revert"
                   /\ log' = <<"baseline_failed">>
                   /\ cand_failed' = TRUE
                   /\ UNCHANGED <<pi, result_broken, author_fix_diff>>
              ELSE /\ result_fixed' = res
                   /\ pc' = "revert"
                   /\ log' = <<"baseline_ok">>
                   /\ UNCHANGED <<pi, result_broken, author_fix_diff, cand_failed>>
    /\ UNCHANGED <<inputVars, rawdogVars, callVars, runVars, output_file, head, tree, config, total_commits, phaseAVars,
                   ci, challenges, all_challenges, skipped_reasons, result,
                   restore_pending, last_op, raised, last_broken>>

\* lines 146-159: baseline build of the fixed state
B_Baseline ==
    /\ pc = "proof_loop"
    /\ pi <= Len(candidate.proof_files)
    /\ \E proc \in LakeOutcomes(tree, proof_file) :
          LET res == run_lake_build(proc)
          IN  IF ~res.success
              THEN /\ NextProofFile
                   /\ log' = <<"baseline_failed">>
                   /\ cand_failed' = TRUE
              ELSE /\ result_fixed' = res
                   /\ pc' = "revert"
                   /\ log' = <<"baseline_ok">>
                   /\ UNCHANGED <<pi, result_broken, author_fix_diff, cand_failed>>
    /\ UNCHANGED <<inputVars, rawdogVars, callVars, runVars, output_file, head, tree, config, total_commits, phaseAVars,
                   ci, challenges, all_challenges, skipped_reasons, result,
                   restore_pending, last_op, raised, last_broken>>

\* as B_Revert, but the result of restore_file_from_parent is not looked at
B_Revert_goes_on ==
    /\ pc = "revert"
    /\ \E gitOk \in GitOutcomes :
          tree' = restore_file_from_parent(tree, repo, commit, proof_file, gitOk)
    /\ pc' = "broken"
    /\ log' = Append(log, "revert_ok")
    /\ restore_pending' = TRUE
    /\ UNCHANGED <<pi, result_fixed, result_broken, author_fix_diff,
                   cand_failed>>
    /\ UNCHANGED <<inputVars, rawdogVars, callVars, runVars, output_file, head, config, total_commits, phaseAVars, ci,
                   challenges, all_challenges, skipped_reasons, result, last_op,
                   raised, last_broken>>

\* lines 161-164: create the broken state
B_Revert ==
    /\ pc = "revert"
    /\ \E gitOk \in GitOutcomes :
          /\ tree' = restore_file_from_parent(tree, repo, commit, proof_file, gitOk)
          /\ IF RestoreSucceeds(repo, commit, proof_file, gitOk)
             THEN /\ pc' = "broken"
                  /\ log' = Append(log, "revert_ok")
                  /\ restore_pending' = TRUE
                  /\ UNCHANGED <<pi, result_fixed, result_broken,
                                 author_fix_diff, cand_failed>>
             ELSE /\ NextProofFile
                  /\ log' = Append(log, "revert_failed")
                  /\ cand_failed' = TRUE
                  /\ UNCHANGED restore_pending
    /\ UNCHANGED <<inputVars, rawdogVars, callVars, runVars, output_file, head, config, total_commits, phaseAVars, ci,
                   challenges, all_challenges, skipped_reasons, result, last_op,
                   raised, last_broken>>

\* as ChallengeCondition, with `or` for `and`
ChallengeCondition_or(res) ==
    ~res.success \/ is_verification_error(res.stderr)

\* line 172: the broken state is a valid challenge
ChallengeCondition(res) ==
    ~res.success /\ is_verification_error(res.stderr)

\* lines 166-173: build of the broken state and the challenge condition
B_BuildBroken ==
    /\ pc = "broken"
    /\ \E proc \in LakeOutcomes(tree, proof_file) :
          LET res == run_lake_build(proc)
          IN  /\ result_broken' = res
              /\ last_broken' = proc
              /\ pc' = IF ChallengeCondition(res) THEN "diff" ELSE "restore"
              /\ log' = log \o
                     (IF res.success THEN <<"broken_ok">>
                      ELSE IF is_verification_error(res.stderr)
                      THEN <<"broken_failed", "verification_error">>
                      ELSE <<"broken_failed", "other_error">>)
              /\ cand_failed' = (cand_failed \/ res.timeout)
    /\ UNCHANGED <<inputVars, rawdogVars, callVars, runVars, output_file, head, tree, config, total_commits, phaseAVars,
                   ci, pi, challenges, all_challenges, skipped_reasons,
                   result_fixed, author_fix_diff, result, restore_pending,
                   last_op, raised>>

\* as Raise, but the exception is not caught and ends the run
Raise_ends_run ==
    /\ AccountException
    /\ ci' = ci + 1
    /\ pc' = "done"
    /\ log' = Append(log, "raised")
    /\ cand_failed' = TRUE
    /\ pi' = 1
    /\ challenges' = <<>>
    /\ result_fixed' = NoResult
    /\ result_broken' = NoResult
    /\ author_fix_diff' = EmptyDiff
    /\ raised' = raised \cup {ci}
    /\ last_broken' = NoProc

\* the exception leaves validate_candidate and is caught by run_mining
Raise ==
    /\ AccountException
    /\ ci' = ci + 1
    /\ pc' = "cand_loop"
    /\ log' = Append(log, "raised")
    /\ cand_failed' = TRUE
    /\ pi' = 1
    /\ challenges' = <<>>
    /\ result_fixed' = NoResult
    /\ result_broken' = NoResult
    /\ author_fix_diff' = EmptyDiff
    /\ raised' = raised \cup {ci}
    /\ last_broken' = NoProc

DiffOutcomes ==
    IF env = "deterministic" THEN {"ok"} ELSE {"ok", "git_error", "raise"}

\* lines 175-176: get_file_diff returns the diff, returns "" on a
\* GitCommandError, or lets any other exception through
B_Diff ==
    /\ pc = "diff"
    /\ \E outcome \in DiffOutcomes :
          IF outcome = "raise"
          THEN Raise
          ELSE /\ author_fix_diff' = IF outcome = "ok"
                                     THEN get_file_diff(repo, commit, proof_file)
                                     ELSE EmptyDiff
               /\ pc' = "snapshot"
               /\ UNCHANGED <<ci, pi, challenges, all_challenges,
                              skipped_reasons, result_fixed, result_broken, log,
                              cand_failed, raised, last_broken>>
    /\ UNCHANGED <<inputVars, rawdogVars, callVars, runVars, output_file, head, tree, config, total_commits, phaseAVars,
                   result, restore_pending, last_op>>

\* as MakeChallenge, but the message of the build is dropped
MakeChallenge_no_message(cand, pf, diff, res, wt) ==
    [task_id |-> TaskId(cand.commit_hash, pf),
     commit_hash |-> cand.commit_hash,
     proof_file |-> pf,
     definition_files |-> cand.definition_files,
     author_fix_diff |-> diff,
     error_message |-> UnknownError,
     codebase_snapshot |-> capture_codebase_snapshot(wt),
     verification_command |-> <<"lake", "build", ModuleName(pf)>>]

\* lines 189-198
MakeChallenge(cand, pf, diff, res, wt) ==
    [task_id |-> TaskId(cand.commit_hash, pf),
     commit_hash |-> cand.commit_hash,
     proof_file |-> pf,
     definition_files |-> cand.definition_files,
     author_fix_diff |-> diff,
     error_message |-> IF Falsy(res.error_message) THEN UnknownError
                       ELSE res.error_message,
     codebase_snapshot |-> capture_codebase_snapshot(wt),
     verification_command |-> <<"lake", "build", ModuleName(pf)>>]

\* lines 178-200: snapshot (the directory walk may raise) and the challenge
B_Snapshot ==
    /\ pc = "snapshot"
    /\ \E raises \in FaultOutcomes :
          IF raises
          THEN Raise
          ELSE /\ challenges' = Append(challenges,
                      MakeChallenge(candidate, proof_file, author_fix_diff,
                                    result_broken, tree))
               /\ pc' = "restore"
               /\ log' = Append(log, "challenge")
               /\ UNCHANGED <<ci, pi, all_challenges, skipped_reasons,
                              result_fixed, result_broken, author_fix_diff,
                              cand_failed, raised, last_broken>>
    /\ UNCHANGED <<inputVars, rawdogVars, callVars, runVars, output_file, head, tree, config, total_commits, phaseAVars,
                   result, restore_pending, last_op>>

\* lines 202-203: back to the fixed state; the result is not looked at
B_Restore ==
    /\ pc = "restore"
    /\ \E gitOk \in GitOutcomes :
          IF gitOk
          THEN /\ tree' = safe_checkout(tree, repo, commit)
               /\ head' = commit
               /\ log' = Append(log, "restore_ok")
          ELSE /\ UNCHANGED <<tree, head>>
               /\ log' = Append(log, "restore_failed")
    /\ restore_pending' = FALSE
    /\ NextProofFile
    /\ UNCHANGED <<inputVars, rawdogVars, callVars, runVars, output_file, config, total_commits, phaseAVars, ci,
                   challenges, all_challenges, skipped_reasons, result,
                   cand_failed, last_op, raised, last_broken>>

\* line 205 and lines 288-295: validate_candidate returns its challenges
B_Return ==
    /\ pc = "proof_loop"
    /\ pi > Len(candidate.proof_files)
    /\ Account(challenges)
    /\ ci' = ci + 1
    /\ pi' = 1
    /\ challenges' = <<>>
    /\ pc' = "cand_loop"
    /\ last_broken' = NoProc
    /\ UNCHANGED <<inputVars, rawdogVars, callVars, runVars, output_file, head, tree, config,
                   total_commits, phaseAVars, result_fixed, result_broken,
                   author_fix_diff, result, log, restore_pending, cand_failed,
                   last_op, raised>>

\* lines 302-322: output and the MiningResult; the file is written only
\* `if all_challenges`
B_Finish ==
    /\ pc = "cand_loop"
    /\ ci > Len(candidates)
    /\ output_file' = IF all_challenges # <<>>
                      THEN write_challenges(all_challenges)
                      ELSE output_file
    /\ result' = MiningResult(total_commits, Len(candidates), all_challenges,
                              skipped_reasons)
    /\ pc' = "done"
    /\ UNCHANGED <<inputVars, rawdogVars, callVars, runVars, head, tree, config, total_commits, phaseAVars,
                   phaseBVars, last_op>>

Next ==
    \/ Start
    \/ PhaseA_Commit
    \/ PhaseA_Exhausted
    \/ PhaseA_Return
    \/ B_Checkout
    \/ B_Baseline
    \/ B_Revert
    \/ B_BuildBroken
    \/ B_Diff
    \/ B_Snapshot
    \/ B_Restore
    \/ B_Return
    \/ B_Finish

Spec == Init /\ [][Next]_vars

(***************************************************************************)
(* Two calls of run_mining in succession on the same repository, with the  *)
(* same arguments and configuration file, in the deterministic             *)
(* environment.  The second call finds the working tree, HEAD and the      *)
(* output file as the first one left them; everything else is local to a   *)
(* call.  The override of max_commits at lines 233-234 gives the same      *)
(* value in both calls.                                                    *)
(***************************************************************************)
Rerun ==
    /\ pc = "done"
    /\ run = 1
    /\ run' = 2
    /\ first_result' = result
    /\ result' = None
    /\ pc' = "start"
    /\ processed' = 0
    /\ classified' = {}
    /\ total_commits' = 0
    /\ candidates' = <<>>
    /\ ci' = 1
    /\ pi' = 1
    /\ challenges' = <<>>
    /\ all_challenges' = <<>>
    /\ skipped_reasons' = EmptyDict
    /\ result_fixed' = NoResult
    /\ result_broken' = NoResult
    /\ author_fix_diff' = EmptyDiff
    /\ log' = <<>>
    /\ restore_pending' = FALSE
    /\ cand_failed' = FALSE
    /\ raised' = {}
    /\ last_broken' = NoProc
    /\ UNCHANGED <<inputVars, rawdogVars, callVars, head, tree, config, output_file, last_op>>

InitTwice ==
    /\ InitRun
    /\ env = "deterministic"
    /\ RawdogIdle
    /\ CallsIdle

NextTwice == Next \/ Rerun

SpecTwice == InitTwice /\ [][NextTwice]_vars

(***************************************************************************)
(* Direct calls of the git_ops functions, in any order, on any commit and  *)
(* any tracked path.                                                       *)
(***************************************************************************)
OpRecord(op, c, f, ok) ==
    [op |-> op, commit |-> c, file |-> f, ok |-> ok,
     head_before |-> head, before |-> tree,
     prev_op |-> last_op.op, prev_commit |-> last_op.commit,
     prev_ok |-> last_op.ok]

\* safe_checkout(repo, commit_hash)
GitCheckout ==
    /\ pc = "start"
    /\ \E c \in 1..Len(repo), gitOk \in BOOLEAN :
          /\ tree' = IF gitOk THEN safe_checkout(tree, repo, c) ELSE tree
          /\ head' = IF gitOk THEN c ELSE head
          /\ last_op' = OpRecord("checkout", c, Readme, gitOk)
    /\ UNCHANGED <<inputVars, rawdogVars, callVars, runVars, output_file, config, pc, total_commits, phaseAVars,
                   phaseBVars, result>>

\* restore_file_from_parent(repo, commit, file_path)
GitRevert ==
    /\ pc = "start"
    /\ \E c \in 1..Len(repo), f \in Files, gitOk \in BOOLEAN :
          /\ tree' = restore_file_from_parent(tree, repo, c, f, gitOk)
          /\ last_op' = OpRecord("revert", c, f, RestoreSucceeds(repo, c, f, gitOk))
    /\ UNCHANGED <<inputVars, rawdogVars, callVars, runVars, output_file, head, config, pc, total_commits, phaseAVars,
                   phaseBVars, result>>

InitGit ==
    /\ Init
    /\ config = [max_commits |-> 0, min_theorem_count |-> 1,
                 min_tactic_blocks |-> 1, exclude_paths |-> {}]
    /\ limit = -1
    /\ dry_run = FALSE
    /\ output_file = NoFile

NextGit == GitCheckout \/ GitRevert

SpecGit == InitGit /\ [][NextGit]_vars

(***************************************************************************)
(* Direct calls of run_lake_build on every outcome of the subprocess.      *)
(***************************************************************************)
CallRunLakeBuild ==
    /\ pc = "start"
    /\ \E proc \in ProcOutcomes :
          /\ last_broken' = proc
          /\ result_broken' = run_lake_build(proc)
    /\ UNCHANGED <<inputVars, rawdogVars, callVars, runVars, output_file, head, tree, config, pc,
                   total_commits, phaseAVars, ci, pi, challenges,
                   all_challenges, skipped_reasons, result_fixed,
                   author_fix_diff, result, log, restore_pending, cand_failed,
                   last_op, raised>>

NextBuild == CallRunLakeBuild

SpecBuild == Init /\ [][NextBuild]_vars

(***************************************************************************)
(* dafnybench/rawdog/tools.py: the code state kept in the message history. *)
(* Strings are indexed from 0 as in Python.                                *)
(***************************************************************************)
\* the backquote character
BQ == "<backquote>"

StateMarker ==
    <<"=", "=", "=", " ", "C", "U", "R", "R", "E", "N", "T", "_", "C", "O",
      "D", "E", "_", "S", "T", "A", "T", "E", " ", "=", "=", "=">>

FenceOpen ==
    <<BQ, BQ, BQ, "d", "a", "f", "n", "y", "\n">>

FenceClose ==
    <<"\n", BQ, BQ, BQ>>

StateUpdatedNote ==
    <<"\n", "\n", "S", "t", "a", "t", "e", " ", "u", "p", "d", "a", "t", "e",
      "d", " ", "a", "f", "t", "e", "r", " ", "h", "i", "n", "t", " ", "i",
      "n", "s", "e", "r", "t", "i", "o", "n", ".">>

InitialStateNote ==
    <<"\n", "\n", "A", "b", "o", "v", "e", " ", "i", "s", " ", "t", "h", "e",
      " ", "i", "n", "i", "t", "i", "a", "l", " ", "u", "n", "h", "i", "n",
      "t", "e", "d", " ", "c", "o", "d", "e", ".", " ", "U", "s", "e", " ",
      "i", "n", "s", "e", "r", "t", "i", "o", "n", " ", "t", "o", "o", "l",
      "s", " ", "t", "o", " ", "a", "d", "d", " ", "v", "e", "r", "i", "f",
      "i", "c", "a", "t", "i", "o", "n", " ", "h", "i", "n", "t", "s", ".">>

CodeOneLine ==
    <<"m", "(", ")", "{", "}">>

CodeTwoLines ==
    <<"m", "(", ")", "\n", "{", "}">>

CodeWithFence ==
    <<"m", "(", ")", "\n", BQ, BQ, BQ, "\n", "{", "}">>

SampleInput ==
    <<"A", "d", "d", " ", "h", "i", "n", "t", "s", ".">>

\* codes handed to update_code_state: one line, two lines, and a text with
\* a line of three backquotes
Codes == {CodeOneLine, CodeTwoLines, CodeWithFence}

\* str.find(pattern, start) for start >= 0
Find(s, pattern, start) ==
    LET hits == {i \in start..(Len(s) - Len(pattern)) :
                    \A k \in 1..Len(pattern) : s[i + k] = pattern[k]}
    IN  IF hits = {} THEN -1
        ELSE CHOOSE i \in hits : \A j \in hits : i <= j

\* s[a:b] for 0 <= a
Slice(s, a, b) == SubSeq(s, a + 1, b)

\* a message whose content is a string
TextMessage(role, text) ==
    [role |-> role, is_list |-> FALSE, text |-> text, blocks |-> <<>>]

\* a message whose content is a list of blocks
ListMessage(role, blocks) ==
    [role |-> role, is_list |-> TRUE, text |-> <<>>, blocks |-> blocks]

\* lines 28-34 and 37-41: the code between the fences of a marked text, or
\* None when the text has no marker or no fences
ExtractCode(content) ==
    IF Find(content, StateMarker, 0) = -1 THEN None
    ELSE LET start == Find(content, FenceOpen, 0)
             end == IF start = -1 THEN -1 ELSE Find(content, FenceClose, start)
         IN  IF start # -1 /\ end # -1
             THEN Slice(content, start + 9, end)
             ELSE None

\* lines 25-34: the first tool_result block of a list that yields a code
RECURSIVE ExtractFromBlocks(_)
ExtractFromBlocks(blocks) ==
    IF blocks = <<>> THEN None
    ELSE IF Head(blocks).type = "tool_result"
            /\ ExtractCode(Head(blocks).content) # None
    THEN ExtractCode(Head(blocks).content)
    ELSE ExtractFromBlocks(Tail(blocks))

\* lines 22-42: backwards over the first i messages
RECURSIVE CodeStateUpTo(_, _)
CodeStateUpTo(msgs, i) ==
    IF i = 0 THEN None
    ELSE LET msg == msgs[i]
             found == IF msg.role # "user" THEN None
                      ELSE IF msg.is_list THEN ExtractFromBlocks(msg.blocks)
                      ELSE ExtractCode(msg.text)
         IN  IF found # None THEN found ELSE CodeStateUpTo(msgs, i - 1)

get_code_state(msgs) == CodeStateUpTo(msgs, Len(msgs))

\* lines 55-61: the text of a state message
state_message(new_code) ==
    StateMarker \o <<"\n", "\n">> \o FenceOpen \o new_code \o FenceClose
        \o StateUpdatedNote

\* the message history after update_code_state(messages, new_code)
update_code_state(msgs, new_code) ==
    Append(msgs, TextMessage("user", state_message(new_code)))

(***************************************************************************)
(* Direct calls of update_code_state on a history that holds no state      *)
(* message at first.                                                       *)
(***************************************************************************)
MaxUpdates == 3

FixedMining ==
    /\ InitRun
    /\ env = "any"
    /\ repo = RepoSameStem
    /\ head = 1
    /\ config = [max_commits |-> 0, min_theorem_count |-> 1,
                 min_tactic_blocks |-> 1, exclude_paths |-> {}]
    /\ limit = -1
    /\ dry_run = FALSE
    /\ output_file = NoFile

InitState ==
    /\ FixedMining
    /\ CallsIdle
    /\ messages \in {<<>>, <<TextMessage("user", SampleInput)>>,
                      <<TextMessage("assistant", state_message(CodeOneLine))>>}
    /\ sample = None
    /\ max_iterations = 0
    /\ rpc = "idle"
    /\ iteration = 0
    /\ attempts = 0
    /\ success = FALSE
    /\ final_code = None
    /\ hints_done = <<>>
    /\ submitted = <<>>
    /\ model_calls = 0
    /\ state_codes = <<>>

CallUpdateCodeState ==
    /\ rpc = "idle"
    /\ Len(state_codes) < MaxUpdates
    /\ \E new_code \in Codes :
          /\ messages' = update_code_state(messages, new_code)
          /\ state_codes' = Append(state_codes, new_code)
    /\ UNCHANGED <<inputVars, runVars, output_file, head, tree, config, pc,
                   total_commits, phaseAVars, phaseBVars, result, last_op,
                   agentVars, callVars>>

NextState == CallUpdateCodeState

SpecState == InitState /\ [][NextState]_vars

(***************************************************************************)
(* dafnybench/rawdog/tools.py: hint insertion and verification.            *)
(***************************************************************************)
HintInvariant ==
    <<"i", "n", "v", "a", "r", "i", "a", "n", "t">>

HintAssert ==
    <<"a", "s", "s", "e", "r", "t">>

BypassAttribute ==
    <<"{", ":", "v", "e", "r", "i", "f", "y", " ", "f", "a", "l", "s", "e",
      "}">>

CodeWithLoop ==
    <<"m", "(", ")", "\n", "{", "\n", " ", " ", "w", "h", "i", "l", "e", " ",
      "c", "\n", "}">>

ContextWhile ==
    <<"w", "h", "i", "l", "e", " ", "c">>

ContextAbsent ==
    <<"f", "o", "r">>

HintP ==
    <<"p">>

HintQ ==
    <<"q">>

\* "\n".join(lines)
RECURSIVE JoinLines(_)
JoinLines(lines) ==
    IF lines = <<>> THEN <<>>
    ELSE IF Len(lines) = 1 THEN lines[1]
    ELSE lines[1] \o <<"\n">> \o JoinLines(Tail(lines))

Whitespace == {" ", "\t", "\n"}

\* str.lstrip() and str.strip()
RECURSIVE LStrip(_)
LStrip(s) ==
    IF s # <<>> /\ Head(s) \in Whitespace THEN LStrip(Tail(s)) ELSE s

RECURSIVE RStrip(_)
RStrip(s) ==
    IF s # <<>> /\ s[Len(s)] \in Whitespace
    THEN RStrip(SubSeq(s, 1, Len(s) - 1)) ELSE s

Strip(s) == RStrip(LStrip(s))

\* line 77: the leading whitespace of a line
get_indentation(line) == SubSeq(line, 1, Len(line) - Len(LStrip(line)))

\* an insertion point: the 0-based index, or no index and an error message
Point(idx, indent) == [found |-> TRUE, idx |-> idx, indent |-> indent, error |-> <<>>]
NoPoint(error) == [found |-> FALSE, idx |-> 0, indent |-> <<>>, error |-> error]

\* lines 126-137: the 0-based insertion indices the context matches
ContextMatches(code_lines, context_before, context_after) ==
    {i + 1 : i \in {j \in 0..(Len(code_lines) - 1) :
        /\ Contains(code_lines[j + 1], Strip(context_before))
        /\ context_after # None =>
              /\ j + 1 < Len(code_lines)
              /\ Contains(code_lines[j + 2], Strip(context_after))}}

\* lines 106-152; where.has_line tells whether line_number was given
find_insertion_point(code_lines, where) ==
    IF where.has_line
    THEN LET idx == where.line_number - 1
         IN  IF 0 <= idx /\ idx <= Len(code_lines)
             THEN Point(idx,
                        IF idx > 0 THEN get_indentation(code_lines[idx])
                        ELSE IF idx < Len(code_lines)
                        THEN get_indentation(code_lines[idx + 1])
                        ELSE <<>>)
             ELSE NoPoint(<<"Line number ", ToString(where.line_number),
                            " out of range (1-", ToString(Len(code_lines)), ")">>)
    ELSE IF where.context_before # None
    THEN LET matches == ContextMatches(code_lines, where.context_before,
                                       where.context_after)
         IN  IF matches = {}
             THEN NoPoint(<<"Context not found: '">> \o where.context_before
                          \o <<"'">>)
             ELSE IF Cardinality(matches) > 1
             THEN NoPoint(<<"Ambiguous context: '">> \o where.context_before
                          \o <<"' matches ", ToString(Cardinality(matches)),
                               " locations. Use context_after or line_number to disambiguate.">>)
             ELSE LET idx == CHOOSE i \in matches : TRUE
                  IN  Point(idx, get_indentation(code_lines[idx]))
    ELSE NoPoint(<<"Must provide either line_number or context_before">>)

\* str.upper() of one character
UpperChar(c) ==
    CASE c = "a" -> "A" [] c = "b" -> "B" [] c = "c" -> "C" [] c = "d" -> "D"
      [] c = "e" -> "E" [] c = "f" -> "F" [] c = "g" -> "G" [] c = "h" -> "H"
      [] c = "i" -> "I" [] c = "j" -> "J" [] c = "k" -> "K" [] c = "l" -> "L"
      [] c = "m" -> "M" [] c = "n" -> "N" [] c = "o" -> "O" [] c = "p" -> "P"
      [] c = "q" -> "Q" [] c = "r" -> "R" [] c = "s" -> "S" [] c = "t" -> "T"
      [] c = "u" -> "U" [] c = "v" -> "V" [] c = "w" -> "W" [] c = "x" -> "X"
      [] c = "y" -> "Y" [] c = "z" -> "Z" [] OTHER -> c

\* str.capitalize(): the first character upper case, the rest lower case
Capitalize(s) ==
    IF s = <<>> THEN <<>>
    ELSE <<UpperChar(Head(s))>> \o Lower(Tail(s))

\* line 166
format_hint_line(hint_type, hint_content, indentation) ==
    indentation \o hint_type \o <<" ">> \o hint_content

\* list.insert(idx, line), idx 0-based
InsertAt(lines, idx, line) ==
    SubSeq(lines, 1, idx) \o <<line>> \o SubSeq(lines, idx + 1, Len(lines))

\* lines 195-234: the result dictionary of insert_hint; the history is only
\* read
insert_hint(msgs, hint_type, hint_content, where) ==
    LET current_code == get_code_state(msgs)
        code_lines == SplitLines(current_code, <<>>)
        point == find_insertion_point(code_lines, where)
    IN  IF current_code = None
        THEN [success |-> FALSE,
              message |-> <<"Error: No code state found. This is a system error.">>,
              code |-> <<>>,
              line |-> <<>>]
        ELSE IF ~point.found
        THEN [success |-> FALSE, message |-> point.error,
              code |-> current_code, line |-> <<>>]
        ELSE LET hint_line == format_hint_line(hint_type, hint_content, point.indent)
             IN  [success |-> TRUE,
                  message |-> <<"<check> ">> \o Capitalize(hint_type)
                              \o <<" inserted at line ", ToString(point.idx + 1)>>,
                  code |-> JoinLines(InsertAt(code_lines, point.idx, hint_line)),
                  line |-> hint_line]

\* what `dafny verify` can do with a file: accept it, reject it, or run
\* into the 30 second timeout
DafnyOutcomes == {"verified", "errors", "timeout"}

\* as verify_dafny, but the bypass attribute is looked for as written
verify_dafny_case_sensitive(msgs, dafny) ==
    LET code == get_code_state(msgs)
    IN  IF code = None
        THEN [success |-> FALSE,
              message |-> <<"Error: No code state found. Insert hints first.">>,
              code |-> <<>>, stderr |-> <<>>, ran |-> FALSE]
        ELSE IF Contains(code, BypassAttribute)
        THEN [success |-> FALSE,
              message |-> <<"Invalid code: contains {:verify false} which bypasses verification.">>,
              code |-> code, stderr |-> <<"Bypass attempt detected">>, ran |-> FALSE]
        ELSE [success |-> dafny = "verified",
              message |-> IF dafny = "verified"
                          THEN <<"<check> Verification succeeded! All checks passed.">>
                          ELSE IF dafny = "errors"
                          THEN <<"Verification failed:", "\n", "\n", "Error: x">>
                          ELSE <<"Verification timed out after 30 seconds.">>,
              code |-> code,
              stderr |-> IF dafny = "timeout" THEN <<"Timeout">>
                         ELSE IF dafny = "errors" THEN <<"Error: x">> ELSE <<>>,
              ran |-> TRUE]

\* lines 376-437: the result dictionary of verify_dafny; `code` is what was
\* read from the history, `ran` tells whether the verifier was started
verify_dafny(msgs, dafny) ==
    LET code == get_code_state(msgs)
    IN  IF code = None
        THEN [success |-> FALSE,
              message |-> <<"Error: No code state found. Insert hints first.">>,
              code |-> <<>>, stderr |-> <<>>, ran |-> FALSE]
        ELSE IF Contains(Lower(code), BypassAttribute)
        THEN [success |-> FALSE,
              message |-> <<"Invalid code: contains {:verify false} which bypasses verification.">>,
              code |-> code, stderr |-> <<"Bypass attempt detected">>, ran |-> FALSE]
        ELSE [success |-> dafny = "verified",
              message |-> IF dafny = "verified"
                          THEN <<"<check> Verification succeeded! All checks passed.">>
                          ELSE IF dafny = "errors"
                          THEN <<"Verification failed:", "\n", "\n", "Error: x">>
                          ELSE <<"Verification timed out after 30 seconds.">>,
              code |-> code,
              stderr |-> IF dafny = "timeout" THEN <<"Timeout">>
                         ELSE IF dafny = "errors" THEN <<"Error: x">> ELSE <<>>,
              ran |-> TRUE]

(***************************************************************************)
(* dafnybench/rawdog/agent.py: run_agent, the manual tool-calling loop.    *)
(***************************************************************************)
MaxIterations == 2

\* tool_input.get("line_number") and the two contexts of a tool_use block
AtLine(n) ==
    [has_line |-> TRUE, line_number |-> n, context_before |-> None,
     context_after |-> None]
AtContext(before, after) ==
    [has_line |-> FALSE, line_number |-> 0, context_before |-> before,
     context_after |-> after]
Nowhere == AtContext(None, None)

\* content blocks of a model response
TextBlock ==
    [type |-> "text", name |-> "", hint |-> <<>>, where |-> Nowhere]
ToolUse(name, hint, where) ==
    [type |-> "tool_use", name |-> name, hint |-> hint, where |-> where]
VerifyBlock == ToolUse("verify_dafny", <<>>, Nowhere)

\* lines 260-348: the hint keyword each insertion tool passes to insert_hint
HintType(tool_name) ==
    CASE tool_name = "insert_invariant" -> HintInvariant
      [] tool_name = "insert_assertion" -> HintAssert
      [] tool_name = "insert_precondition" -> <<"r", "e", "q", "u", "i", "r", "e", "s">>
      [] tool_name = "insert_postcondition" -> <<"e", "n", "s", "u", "r", "e", "s">>
      [] tool_name = "insert_measure" ->
            <<"d", "e", "c", "r", "e", "a", "s", "e", "s">>

InsertTools ==
    {"insert_invariant", "insert_assertion", "insert_precondition",
     "insert_postcondition", "insert_measure"}

\* the contents the model answers with when it stops for tool use
ToolUseContents ==
    {<<ToolUse("insert_invariant", HintP, AtLine(4))>>,
     <<TextBlock, ToolUse("insert_assertion", HintQ, AtContext(ContextWhile, None))>>,
     <<ToolUse("insert_invariant", HintP, AtContext(ContextAbsent, None))>>,
     <<ToolUse("insert_measure", HintQ, AtLine(9))>>,
     <<VerifyBlock>>,
     <<ToolUse("insert_invariant", HintP, AtLine(4)), VerifyBlock>>,
     <<VerifyBlock, VerifyBlock>>,
     <<ToolUse("unknown_tool", <<>>, Nowhere)>>}

\* lines 269-276, 368-387: a tool_result block; is_error is absent (FALSE
\* here) after a successful verification
ToolResult(content, is_error) ==
    [type |-> "tool_result", content |-> content, is_error |-> is_error]

\* lines 253-387: one content block of the response; acc carries the locals
\* of run_agent the loop over the blocks changes, dafny is what the verifier
\* does if this block starts it, earlier are the hint lines inserted in
\* earlier turns
AfterInsert(acc, r) ==
    [acc EXCEPT
       !.tool_results = Append(@, ToolResult(r.message, ~r.success)),
       !.hints = IF r.success THEN Append(@, r.line) ELSE @]

AfterVerify(acc, r, earlier) ==
    [acc EXCEPT
       !.attempts = @ + 1,
       !.success = @ \/ r.success,
       !.final_code = IF r.success THEN r.code ELSE @,
       !.tool_results = Append(@, ToolResult(r.message, ~r.success)),
       !.submitted = IF r.ran
                     THEN Append(@, [code |-> r.code, hints |-> earlier])
                     ELSE @]

ProcessBlock(block, msgs, dafny, earlier, acc) ==
    IF block.type # "tool_use" THEN acc
    ELSE IF block.name \in InsertTools
    THEN CHOOSE next \in
            {AfterInsert(acc, r) :
                r \in {insert_hint(msgs, HintType(block.name), block.hint,
                                   block.where)}} : TRUE
    ELSE IF block.name = "verify_dafny"
    THEN CHOOSE next \in
            {AfterVerify(acc, r, earlier) :
                r \in {verify_dafny(msgs, dafny)}} : TRUE
    ELSE acc

RECURSIVE ProcessBlocks(_, _, _, _, _, _)
ProcessBlocks(content, i, msgs, outs, earlier, acc) ==
    IF i > Len(content) THEN acc
    ELSE ProcessBlocks(content, i + 1, msgs, outs, earlier,
                       ProcessBlock(content[i], msgs, outs[i], earlier, acc))

\* lines 56-62
initial_state(hints_removed) ==
    StateMarker \o <<"\n", "\n">> \o FenceOpen \o hints_removed \o FenceClose
        \o <<"\n", "\n">> \o InitialStateNote

\* a method that carries the bypass attribute, in mixed case
CodeWithBypass ==
    <<"m", "(", ")", " ", "{", ":", "V", "e", "r", "i", "f", "y", " ", "F",
      "a", "l", "s", "e", "}", "\n", "{", "\n", "}">>

Samples == {CodeWithLoop, CodeWithBypass}

\* lines 56-73: run_agent has built the history and is about to enter the loop
InitAgent ==
    /\ FixedMining
    /\ CallsIdle
    /\ sample \in Samples
    /\ max_iterations \in 0..MaxIterations
    /\ messages = <<TextMessage("user", SampleInput),
                    TextMessage("user", initial_state(sample))>>
    /\ rpc = "loop"
    /\ iteration = 0
    /\ attempts = 0
    /\ success = FALSE
    /\ final_code = None
    /\ hints_done = <<>>
    /\ submitted = <<>>
    /\ model_calls = 0
    /\ state_codes = <<>>

miningVars ==
    <<inputVars, runVars, output_file, head, tree, config, pc, total_commits,
      phaseAVars, phaseBVars, result, last_op>>

\* as InLoop, but the range has one more element
InLoop_one_more == rpc = "loop" /\ iteration <= max_iterations

\* line 220: the loop body is entered for iteration in range(max_iterations)
InLoop == rpc = "loop" /\ iteration < max_iterations

\* lines 223-234: the API call raises APIError
ApiError ==
    /\ InLoop
    /\ model_calls' = model_calls + 1
    /\ rpc' = "after_loop"
    /\ UNCHANGED <<miningVars, callVars, sample, max_iterations, messages, iteration,
                   attempts, success, final_code, hints_done, submitted,
                   state_codes>>

\* lines 236-249: the model stops with end_turn or another reason that is
\* not tool_use
StopWithoutToolUse ==
    /\ InLoop
    /\ \E stop_reason \in {"end_turn", "max_tokens"} :
          /\ model_calls' = model_calls + 1
          /\ messages' = Append(messages, ListMessage("assistant", <<TextBlock>>))
          /\ rpc' = "after_loop"
    /\ UNCHANGED <<miningVars, callVars, sample, max_iterations, iteration, attempts,
                   success, final_code, hints_done, submitted, state_codes>>

\* lines 236-393: the model stops for tool use; every block is routed to its
\* tool and the results become one user message
ToolUseTurn ==
    /\ InLoop
    /\ \E content \in ToolUseContents :
       \E outs \in [1..Len(content) -> DafnyOutcomes] :
       \E with_reply \in {Append(messages, ListMessage("assistant", content))} :
       \E acc \in {ProcessBlocks(content, 1, with_reply, outs, hints_done,
                        [tool_results |-> <<>>, attempts |-> attempts,
                         success |-> success, final_code |-> final_code,
                         hints |-> hints_done, submitted |-> submitted])} :
              /\ model_calls' = model_calls + 1
              /\ messages' = Append(with_reply,
                                    ListMessage("user", acc.tool_results))
              /\ attempts' = acc.attempts
              /\ success' = acc.success
              /\ final_code' = acc.final_code
              /\ hints_done' = acc.hints
              /\ submitted' = acc.submitted
              /\ IF acc.success
                 THEN rpc' = "final_call" /\ iteration' = iteration
                 ELSE rpc' = "loop" /\ iteration' = iteration + 1
    /\ UNCHANGED <<miningVars, callVars, sample, max_iterations, state_codes>>

\* line 220: range(max_iterations) is used up
LoopExhausted ==
    /\ rpc = "loop"
    /\ iteration >= max_iterations
    /\ rpc' = "after_loop"
    /\ UNCHANGED <<miningVars, callVars, sample, max_iterations, messages, iteration,
                   attempts, success, final_code, hints_done, submitted,
                   model_calls, state_codes>>

\* lines 393-404: one more API call after a success; the response, or the
\* APIError, is dropped
FinalCall ==
    /\ rpc = "final_call"
    /\ model_calls' = model_calls + 1
    /\ rpc' = "after_loop"
    /\ UNCHANGED <<miningVars, callVars, sample, max_iterations, messages, iteration,
                   attempts, success, final_code, hints_done, submitted,
                   state_codes>>

\* lines 406-421: without a success the final code is read from the history
\* and verified once more for the error details
ReturnResult ==
    /\ rpc = "after_loop"
    /\ rpc' = "returned"
    /\ IF success
       THEN UNCHANGED <<final_code, submitted>>
       ELSE /\ final_code' = get_code_state(messages)
            /\ IF final_code' # None /\ final_code' # <<>>
               THEN \E dafny \in DafnyOutcomes :
                    \E r \in {verify_dafny(messages, dafny)} :
                       submitted' =
                              IF r.ran
                              THEN Append(submitted, [code |-> r.code,
                                                      hints |-> hints_done])
                              ELSE submitted
               ELSE UNCHANGED submitted
    /\ UNCHANGED <<miningVars, callVars, sample, max_iterations, messages, iteration,
                   attempts, success, hints_done, model_calls, state_codes>>

NextAgent ==
    \/ ApiError
    \/ StopWithoutToolUse
    \/ ToolUseTurn
    \/ LoopExhausted
    \/ FinalCall
    \/ ReturnResult

SpecAgent == InitAgent /\ [][NextAgent]_vars

(***************************************************************************)
(* Direct calls of is_verification_error and parse_lean_error on stderr    *)
(* texts of a few lines.                                                   *)
(***************************************************************************)
MaxLines == 2

\* str.upper()
Upper(s) == [i \in 1..Len(s) |-> UpperChar(s[i])]

\* a line longer than the 200 characters parse_lean_error keeps
LongLine == [i \in 1..201 |-> IF i = 201 THEN "y" ELSE "x"]

StderrWarning == <<"w", "a", "r", "n", "i", "n", "g", ":", " ", "x">>
BlankLine == <<" ", "\t">>

\* the lines the build tool writes
StderrLines ==
    verification_patterns \cup exclude_patterns
        \cup {Upper(VP_unsolved_goals), Capitalize(XP_syntax_error),
              StderrTypeMismatch, StderrWarning, BlankLine, <<>>, LongLine}

\* the texts of at most n lines
RECURSIVE StderrTexts(_)
StderrTexts(n) ==
    IF n <= 1 THEN StderrLines
    ELSE StderrTexts(n - 1)
         \cup {t \o <<"\n">> \o line : t \in StderrTexts(n - 1), line \in StderrLines}

InitVerification ==
    /\ FixedMining
    /\ RawdogIdle
    /\ given_stderr \in StderrTexts(MaxLines)
    /\ verdict = <<>>
    /\ parsed = <<>>
    /\ tool_call = <<>>

CallIsVerificationError ==
    /\ verdict = <<>>
    /\ verdict' = <<is_verification_error(given_stderr)>>
    /\ UNCHANGED <<miningVars, rawdogVars, given_stderr, parsed, tool_call>>

CallParseLeanError ==
    /\ parsed = <<>>
    /\ parsed' = <<parse_lean_error(given_stderr)>>
    /\ UNCHANGED <<miningVars, rawdogVars, given_stderr, verdict, tool_call>>

NextVerification == CallIsVerificationError \/ CallParseLeanError

SpecVerification == InitVerification /\ [][NextVerification]_vars

(***************************************************************************)
(* The insertion tools called directly on a message history, as the tests  *)
(* of tests/dafnybench/test_plain_tools.py call them.                      *)
(***************************************************************************)
\* a code whose first line is indented
CodeIndented ==
    <<" ", "a", "\n", "b">>

\* the histories the tools are called on: none, one without a state
\* message, the one run_agent starts with, and one with a later state
ToolHistories ==
    {<<>>,
     <<TextMessage("user", SampleInput)>>,
     <<TextMessage("user", SampleInput),
       TextMessage("user", initial_state(CodeWithLoop))>>,
     <<TextMessage("user", SampleInput),
       TextMessage("user", initial_state(CodeIndented))>>,
     update_code_state(<<TextMessage("user", SampleInput),
                         TextMessage("user", initial_state(CodeWithLoop))>>,
                       CodeTwoLines)}

\* the largest line number a caller asks for
MaxLineNumber == 6

\* line_number, context_before and context_after as a caller gives them
ToolWheres ==
    {AtLine(n) : n \in 0..MaxLineNumber}
    \cup {AtContext(ContextWhile, None), AtContext(ContextAbsent, None),
          AtContext(<<" ">> \o ContextWhile \o <<" ">>, <<"}">>),
          AtContext(ContextWhile, <<"{">>),
          AtContext(<<>>, None), AtContext(<<"(">>, None),
          AtContext(<<>>, <<"}">>), Nowhere}

\* as insert_hint_messages, but a successful insertion stores the new code
insert_hint_messages_updates_state(msgs, hint_type, hint_content, where) ==
    CHOOSE next \in
        {IF r.success THEN update_code_state(msgs, r.code) ELSE msgs :
            r \in {insert_hint(msgs, hint_type, hint_content, where)}} : TRUE

\* lines 195-234: the message list after insert_hint has returned; the
\* function reads it through get_code_state and never assigns to it
insert_hint_messages(msgs, hint_type, hint_content, where) == msgs

InitTools ==
    /\ FixedMining
    /\ CallsIdle
    /\ messages \in ToolHistories
    /\ sample = None
    /\ max_iterations = 0
    /\ rpc = "idle"
    /\ iteration = 0
    /\ attempts = 0
    /\ success = FALSE
    /\ final_code = None
    /\ hints_done = <<>>
    /\ submitted = <<>>
    /\ model_calls = 0
    /\ state_codes = <<>>

\* lines 237-348: one of the five tools is called on the history
CallInsertTool ==
    /\ rpc = "idle"
    /\ tool_call = <<>>
    /\ \E tool \in InsertTools, hint \in {HintP, HintQ}, where \in ToolWheres :
          \E before \in {get_code_state(messages)},
             r \in {insert_hint(messages, HintType(tool), hint, where)} :
             /\ tool_call' = <<[tool |-> tool, hint |-> hint, where |-> where,
                                history |-> messages, code_before |-> before,
                                result |-> r]>>
             /\ messages' = insert_hint_messages(messages, HintType(tool),
                                                 hint, where)
    /\ UNCHANGED <<miningVars, given_stderr, verdict, parsed, agentVars,
                   state_codes>>

NextTools == CallInsertTool

SpecTools == InitTools /\ [][NextTools]_vars

(***************************************************************************)
(* Properties.                                                             *)
(***************************************************************************)
Count(d, k) == IF k \in DOMAIN d THEN d[k] ELSE 0

InPhaseA == pc \in {"phase_a", "phase_a_done"}

\* the i-th commit of the walk has gone through classification
Classified(i) ==
    /\ i \in 1..processed
    /\ config.max_commits <= 0 \/ i <= config.max_commits

WalkCommit(i) == get_commit_iterator(repo)[i]

\* .lean paths whose blob differs from the first parent (all, for the root)
ModifiedSet(c) ==
    {f \in Files :
        /\ EndsWithLean(f)
        /\ IF repo[c].parents = <<>> THEN repo[c].tree[f].exists
           ELSE repo[c].tree[f] # repo[repo[c].parents[1]].tree[f]}

\* modified paths that are not excluded and are on disk
Surviving(c) ==
    {f \in ModifiedSet(c) :
        ~should_exclude_path(f, config.exclude_paths) /\ tree[f].exists}

DefinitionSet(c) ==
    {f \in Surviving(c) : classify_file(f, tree[f]).is_definition}

QualifyingProofSet(c) ==
    {f \in Surviving(c) :
        LET k == classify_file(f, tree[f])
        IN  /\ k.is_proof
            /\ \/ k.theorem_count >= config.min_theorem_count
               \/ k.lemma_count >= config.min_theorem_count
               \/ k.tactic_block_count >= config.min_tactic_blocks}

HasCandidate(c) ==
    \E k \in 1..Len(candidates) : candidates[k].commit_hash = repo[c].hexsha

\* C1: once revert_file_to_parent has succeeded for a proof file, the restore
\* is executed on every exit path from that proof file's processing, also
\* when the diff computation or the snapshot capture raises.
C1_RestoreOnEveryExit ==
    pc \in {"proof_loop", "cand_loop", "done"} => ~restore_pending

\* C2: when validation of the next candidate begins, no file of the working
\* tree is still in the reverted state left by the previous candidate: the
\* working tree equals the commit HEAD points at.
C2_NextCandidateStartsClean ==
    (pc = "cand_loop" /\ ci > 1 /\ ci <= Len(candidates))
        => tree = repo[head].tree

\* C3: a successful checkout of a commit leaves exactly that commit's tree,
\* whatever was reverted before; on an already clean checkout it changes
\* nothing.
C3_RestoreRoundTrip ==
    (last_op.op = "checkout" /\ last_op.ok)
        => /\ tree = repo[last_op.commit].tree
           /\ last_op.before = repo[last_op.commit].tree => tree = last_op.before

\* a checkout of commit c that follows a successful revert of a file of c
C3_Witness ==
    /\ last_op.op = "checkout" /\ last_op.ok
    /\ last_op.prev_op = "revert" /\ last_op.prev_ok
    /\ last_op.prev_commit = last_op.commit
    /\ last_op.head_before = last_op.commit
    /\ last_op.before # repo[last_op.commit].tree

\* C4: a successful revert_file_to_parent sets exactly that file to its
\* content at the first parent and leaves every other file as it was.
C4_RevertFrame ==
    (last_op.op = "revert" /\ last_op.ok)
        => /\ repo[last_op.commit].parents # <<>>
           /\ tree[last_op.file] =
                  repo[repo[last_op.commit].parents[1]].tree[last_op.file]
           /\ \A g \in Files \ {last_op.file} : tree[g] = last_op.before[g]

\* a revert on a clean checkout that changed the file, in a commit whose
\* parent differs in another file too
C4_Witness ==
    /\ last_op.op = "revert" /\ last_op.ok
    /\ last_op.before = repo[last_op.commit].tree
    /\ tree # last_op.before
    /\ \E g \in Files \ {last_op.file} :
          tree[g] # repo[repo[last_op.commit].parents[1]].tree[g]

\* C5: revert_file_to_parent on a commit without parent returns false and
\* leaves the working tree unchanged.
C5_NoParentRevertFails ==
    (last_op.op = "revert" /\ repo[last_op.commit].parents = <<>>)
        => ~last_op.ok /\ tree = last_op.before

\* a revert of a file that is on disk, asked for the root commit
C5_Witness ==
    /\ last_op.op = "revert"
    /\ repo[last_op.commit].parents = <<>>
    /\ last_op.head_before = last_op.commit
    /\ tree[last_op.file].exists

\* C6: Phase A emits a candidate for a classified commit iff both the
\* definition files and the qualifying proof files among its modified,
\* non-excluded files are non-empty; every candidate has both lists
\* non-empty.
C6_EmitIffBothNonEmpty ==
    /\ InPhaseA =>
          \A i \in 1..Len(repo) :
             HasCandidate(WalkCommit(i)) <=>
                 /\ Classified(i)
                 /\ DefinitionSet(WalkCommit(i)) # {}
                 /\ QualifyingProofSet(WalkCommit(i)) # {}
    /\ \A k \in 1..Len(candidates) :
          /\ candidates[k].definition_files # <<>>
          /\ candidates[k].proof_files # <<>>

\* Phase A is over with a candidate and with a classified commit that has
\* only one of the two kinds of file
C6_Witness ==
    /\ pc = "phase_a_done"
    /\ candidates # <<>>
    /\ \E i \in 1..Len(repo) :
          /\ Classified(i)
          /\ ~HasCandidate(WalkCommit(i))
          /\ (DefinitionSet(WalkCommit(i)) = {}) # (QualifyingProofSet(WalkCommit(i)) = {})

C8_ChallengeOnlyAfterVerificationFailure ==
    [][ /\ challenges' # challenges /\ challenges' # <<>> =>
             /\ challenges' = Append(challenges, challenges'[Len(challenges')])
             /\ log' = <<"baseline_ok", "revert_ok", "broken_failed",
                         "verification_error", "challenge">>
             /\ result_fixed.success
             /\ ~result_broken.success
             /\ is_verification_error(result_broken.stderr)
             /\ challenges'[Len(challenges')].proof_file = proof_file
             /\ challenges'[Len(challenges')].commit_hash = candidate.commit_hash
        /\ all_challenges' # all_challenges =>
             all_challenges' = all_challenges \o challenges ]_vars

\* a challenge has just been created
C8_Witness ==
    /\ pc = "restore"
    /\ challenges # <<>>
    /\ log[Len(log)] = "challenge"

\* C9: the task_id values of all challenges emitted in one run are pairwise
\* distinct.
C9_TaskIdsUnique ==
    \A i, j \in 1..Len(all_challenges) :
        i # j => all_challenges[i].task_id # all_challenges[j].task_id

\* C10 as stated: every recoverable failure that hits a candidate is counted
\* in skipped_reasons by the time the candidate is finished.
C10_EveryFailureCounted ==
    [][(ci' = ci + 1 /\ cand_failed') => skipped_reasons' # skipped_reasons]_vars

\* C10 amended: accounting is per candidate.  A candidate whose validation
\* raises counts once under "exception", one that returns no challenge
\* (checkout failure included) counts once under "no_verification_error",
\* one that returns challenges counts nowhere; the run only ends after the
\* last candidate.
C10_PerCandidateAccounting ==
    /\ [][ci' = ci + 1 =>
            /\ pc' = "cand_loop"
            /\ IF pc \in {"diff", "snapshot"}
               THEN /\ Count(skipped_reasons', "exception")
                          = Count(skipped_reasons, "exception") + 1
                    /\ Count(skipped_reasons', "no_verification_error")
                          = Count(skipped_reasons, "no_verification_error")
                    /\ all_challenges' = all_challenges
               ELSE IF pc = "cand_loop" \/ challenges = <<>>
               THEN /\ Count(skipped_reasons', "no_verification_error")
                          = Count(skipped_reasons, "no_verification_error") + 1
                    /\ Count(skipped_reasons', "exception")
                          = Count(skipped_reasons, "exception")
                    /\ all_challenges' = all_challenges
               ELSE /\ skipped_reasons' = skipped_reasons
                    /\ all_challenges' = all_challenges \o challenges]_vars
    /\ [](pc = "done" /\ ~dry_run => ci = Len(candidates) + 1)

\* the run is over after a raise, a skipped candidate and a challenge
C10_Witness ==
    /\ pc = "done"
    /\ Count(skipped_reasons, "exception") > 0
    /\ Count(skipped_reasons, "no_verification_error") > 0
    /\ all_challenges # <<>>

\* C11: when validate_candidate raises for candidate k, run_mining counts
\* exactly one "exception" and nothing else, adds no challenge of candidate
\* k to the result, goes on with candidate k+1, and the run ends only after
\* the last candidate: the result holds no challenge of a candidate that
\* raised
C11_ExceptionIsolated ==
    /\ [][(raised' # raised /\ run' = run) =>
            /\ raised' = raised \cup {ci}
            /\ Count(skipped_reasons', "exception")
                  = Count(skipped_reasons, "exception") + 1
            /\ Count(skipped_reasons', "no_verification_error")
                  = Count(skipped_reasons, "no_verification_error")
            /\ all_challenges' = all_challenges
            /\ ci' = ci + 1
            /\ pc' = "cand_loop"]_vars
    /\ [][run' = run => ci' \in {ci, ci + 1}]_vars
    /\ [](\A k \in raised : \A j \in 1..Len(all_challenges) :
             all_challenges[j].commit_hash # candidates[k].commit_hash)
    /\ []((pc = "done" /\ ~dry_run) =>
             /\ ci = Len(candidates) + 1
             /\ Count(skipped_reasons, "exception") = Cardinality(raised))

\* a candidate raised and a later candidate still produced a challenge
C11_Witness ==
    /\ pc = "done"
    /\ \E k \in raised : \E j \in 1..Len(all_challenges) : \E k2 \in 1..Len(candidates) :
          /\ k2 > k
          /\ all_challenges[j].commit_hash = candidates[k2].commit_hash

\* C12: a run whose repository opened is never ended by an exception: no
\* outcome of an external call while one commit is processed in Phase A or
\* one candidate in Phase B takes run_mining out before it builds the
\* MiningResult
C12_RunNeverAborted == pc # "crashed"

\* C13: run_lake_build returns a VerificationResult for every outcome of the
\* subprocess: a timeout gives success = false, timeout = true and the
\* message "Build timed out"; any other exception gives success = false and
\* timeout = false; a normal exit gives success = (exit code 0) and
\* timeout = false
C13_RunLakeBuildTotal ==
    last_broken # NoProc =>
        /\ DOMAIN result_broken = {"success", "stderr", "error_message", "timeout"}
        /\ last_broken.kind = "timeout" =>
              /\ ~result_broken.success
              /\ result_broken.timeout
              /\ result_broken.error_message = BuildTimedOut
        /\ last_broken.kind = "raise" =>
              /\ ~result_broken.success
              /\ ~result_broken.timeout
        /\ last_broken.kind = "exit" =>
              /\ result_broken.success = (last_broken.returncode = 0)
              /\ ~result_broken.timeout

\* a timeout whose captured bytes end in the middle of a character
C13_Witness ==
    /\ last_broken.kind = "timeout"
    /\ last_broken.stderr # None
    /\ result_broken.timeout
    /\ \E i \in 1..Len(result_broken.stderr) : result_broken.stderr[i] = ReplacementChar

\* C14: with git working and a build tool that is a function of the working
\* tree and the target, a second run_mining call on the same repository
\* with the same arguments and configuration returns the MiningResult of the
\* first, whatever commit the first call left checked out
C14_SecondRunSameResult ==
    (run = 2 /\ pc = "done") => result = first_result

\* validate_candidate returns to run_mining
ReturnStep == pc = "proof_loop" /\ pc' = "cand_loop" /\ run' = run

\* the candidate being validated has one proof file and its broken-state
\* build ended with a non-zero exit code and the given stderr
SingleProofFileBrokenWith(stderrs) ==
    /\ ci <= Len(candidates)
    /\ Len(candidate.proof_files) = 1
    /\ last_broken.kind = "exit"
    /\ last_broken.returncode # 0
    /\ last_broken.stderr \in stderrs

\* C15: a candidate with one qualifying proof file whose baseline build
\* succeeded and whose parent-state build failed with a type mismatch error
\* returns exactly one challenge, for that proof file, with an error message
\* containing "type mismatch", and run_mining adds exactly that challenge
C15_TypeMismatchYieldsOneChallenge ==
    [][(ReturnStep /\ SingleProofFileBrokenWith({StderrTypeMismatch})) =>
          /\ Len(challenges) = 1
          /\ all_challenges' = all_challenges \o challenges
          /\ challenges[1].commit_hash = candidate.commit_hash
          /\ challenges[1].proof_file = candidate.proof_files[1]
          /\ Contains(challenges[1].error_message, VP_type_mismatch)
          /\ skipped_reasons' = skipped_reasons]_vars

\* validation is about to return the challenge of a type mismatch
C15_Witness ==
    /\ pc = "proof_loop"
    /\ pi > 1
    /\ SingleProofFileBrokenWith({StderrTypeMismatch})
    /\ Len(challenges) = 1
    /\ Contains(challenges[1].error_message, VP_type_mismatch)

\* C16: a candidate with one proof file whose parent-state build failed with
\* an "unknown package" error yields no challenge and is counted once under
\* "no_verification_error", also when the same stderr holds proof-failure
\* vocabulary; the broken-state build is followed directly by the restore
C16_UnknownPackageYieldsNoChallenge ==
    /\ [][(ReturnStep /\ SingleProofFileBrokenWith(
                            {StderrUnknownPackage, StderrPackageAndMismatch})) =>
            /\ challenges = <<>>
            /\ all_challenges' = all_challenges
            /\ Count(skipped_reasons', "no_verification_error")
                  = Count(skipped_reasons, "no_verification_error") + 1
            /\ Count(skipped_reasons', "exception")
                  = Count(skipped_reasons, "exception")]_vars
    /\ [][(pc = "broken" /\ last_broken'.kind = "exit"
             /\ last_broken'.stderr \in {StderrUnknownPackage, StderrPackageAndMismatch}) =>
            /\ pc' = "restore"
            /\ challenges' = challenges]_vars

\* validation is about to return nothing after an unknown-package failure
\* whose stderr also reports a type mismatch
C16_Witness ==
    /\ pc = "proof_loop"
    /\ pi > 1
    /\ SingleProofFileBrokenWith({StderrPackageAndMismatch})
    /\ Contains(Lower(last_broken.stderr), VP_type_mismatch)
    /\ challenges = <<>>

\* C17: when the checkout of a candidate's commit fails, no exception is
\* raised and validate_candidate returns no challenge at once: no build, no
\* revert and no further checkout happen for that candidate, the working
\* tree and HEAD stay as they were, and run_mining goes on to the next
\* candidate
C17_CheckoutFailureSkipsCandidate ==
    [][(pc = "cand_loop" /\ pc' # "done" /\ cand_failed') =>
          /\ pc' = "cand_loop"
          /\ ci' = ci + 1
          /\ tree' = tree
          /\ head' = head
          /\ log' = <<>>
          /\ last_broken' = NoProc
          /\ restore_pending' = restore_pending
          /\ all_challenges' = all_challenges
          /\ raised' = raised
          /\ Count(skipped_reasons', "exception")
                = Count(skipped_reasons, "exception")
          /\ Count(skipped_reasons', "no_verification_error")
                = Count(skipped_reasons, "no_verification_error") + 1]_vars

\* a candidate was skipped by a failed checkout while another commit is
\* checked out
C17_Witness ==
    /\ pc = "cand_loop"
    /\ ci > 1
    /\ cand_failed
    /\ log = <<>>
    /\ head # CommitByHash(repo, candidates[ci - 1].commit_hash)
    /\ Count(skipped_reasons, "no_verification_error") > 0

\* C18: after a completed run that is not a dry run, the lines of the output
\* file are exactly that run's challenges in list order, whatever the file
\* held before, also when the run produced no challenge
C18_OutputHoldsThisRunsChallenges ==
    (pc = "done" /\ ~dry_run) =>
        output_file.lines = write_challenges(result.challenges).lines

\* C19: a dry run executes Phase A only: it never enters the candidate loop,
\* so there is no checkout, revert or build; working tree, HEAD and output
\* file are never changed; and the MiningResult it returns has no challenge,
\* empty skipped_reasons and the number of identified candidates
C19_DryRunIsPhaseAOnly ==
    /\ [](dry_run => pc \in {"start", "phase_a", "phase_a_done", "done", "crashed"})
    /\ [][dry_run =>
            /\ tree' = tree
            /\ head' = head
            /\ output_file' = output_file
            /\ log' = log
            /\ last_broken' = last_broken
            /\ restore_pending' = restore_pending
            /\ all_challenges' = all_challenges
            /\ skipped_reasons' = skipped_reasons]_vars
    /\ []((dry_run /\ pc = "done") =>
            /\ result.valid_challenges = 0
            /\ result.challenges = <<>>
            /\ result.skipped_reasons = EmptyDict
            /\ result.candidates = Len(candidates)
            /\ result.total_commits = total_commits)

\* a finished dry run that identified candidates, with an earlier output
\* file still in place
C19_Witness ==
    /\ dry_run
    /\ pc = "done"
    /\ Len(candidates) > 0
    /\ result.candidates = Len(candidates)
    /\ output_file = StaleOutput
    /\ tree = repo[head].tree

\* C20: with a negative limit Phase A applies no cutoff, whatever max_commits
\* the configuration holds: when Phase A ends normally every commit of the
\* walk has been classified
C20_NegativeLimitIsUnlimited ==
    (limit < 0 /\ pc = "phase_a_done") =>
        \A i \in 1..Len(get_commit_iterator(repo)) : Classified(i)

\* the broken state of a challenge: the candidate commit's tree with the
\* proof file as it is in the first parent, restricted to .lean files
BrokenStateSnapshot(ch) ==
    LET c == CommitByHash(repo, ch.commit_hash)
        broken == [f \in Files |->
                      IF f = ch.proof_file
                      THEN repo[repo[c].parents[1]].tree[f]
                      ELSE repo[c].tree[f]]
    IN  [f \in {g \in Files : EndsWithLean(g) /\ broken[g].exists} |-> broken[f]]

\* C21: the codebase_snapshot of every emitted challenge is the broken
\* state: the proof file as in the candidate commit's first parent and every
\* other .lean file as in the candidate commit
C21_SnapshotIsBrokenState ==
    /\ \A j \in 1..Len(challenges) :
          challenges[j].codebase_snapshot = BrokenStateSnapshot(challenges[j])
    /\ \A j \in 1..Len(all_challenges) :
          all_challenges[j].codebase_snapshot = BrokenStateSnapshot(all_challenges[j])

\* C22: after any sequence of update_code_state calls get_code_state returns
\* the code of the most recent call, and None while no state message was
\* added; every call appends exactly one user message carrying the marker
C22_StateRoundTrip ==
    /\ [](IF state_codes = <<>>
          THEN get_code_state(messages) = None
          ELSE get_code_state(messages) = state_codes[Len(state_codes)])
    /\ [][state_codes' # state_codes =>
            /\ Len(messages') = Len(messages) + 1
            /\ SubSeq(messages', 1, Len(messages)) = messages
            /\ messages'[Len(messages')].role = "user"
            /\ Find(messages'[Len(messages')].text, StateMarker, 0) # -1]_vars

\* C23: every code the rawdog run_agent hands to the verifier contains every
\* hint line that a successful insert_* call of an earlier turn inserted.
C23_VerifierSeesInsertedHints ==
    \A j \in 1..Len(submitted) :
        \A k \in 1..Len(submitted[j].hints) :
            Contains(submitted[j].code, submitted[j].hints[k])

\* C24: whenever validate_candidate is about to run the baseline build of a
\* proof file, the working tree is the candidate commit's tree: no earlier
\* proof file of the candidate is still reverted
C24_BaselineOnCandidateTree ==
    (pc = "proof_loop" /\ ci <= Len(candidates)
        /\ pi <= Len(candidate.proof_files)) =>
        tree = safe_checkout(tree, repo, commit)

\* s starts with p
IsPrefix(p, s) == Len(p) <= Len(s) /\ SubSeq(s, 1, Len(p)) = p

\* the complete step sequences of one proof file
StepOrders ==
    {<<"baseline_failed">>,
     <<"baseline_ok", "revert_failed">>,
     <<"baseline_ok", "revert_ok", "broken_failed", "verification_error",
       "raised">>}
    \cup {<<"baseline_ok", "revert_ok">> \o build \o <<restore>> :
            build \in {<<"broken_ok">>,
                       <<"broken_failed", "other_error">>,
                       <<"broken_failed", "verification_error", "challenge">>},
            restore \in {"restore_ok", "restore_failed"}}

\* C25: the steps of one proof file come in the order baseline, revert,
\* broken build, classification, restore; revert and broken build happen
\* only after that file's baseline succeeded; a file whose baseline fails is
\* abandoned with no revert, no second build and no challenge, and the loop
\* moves on to the next proof file; the candidate's challenges are returned
\* only after its last proof file
C25_FixedStepOrder ==
    /\ [](\E s \in StepOrders : IsPrefix(log, s))
    /\ [](pc \in {"revert", "broken"} => result_fixed.success)
    /\ [][(pc = "proof_loop" /\ pi <= Len(candidate.proof_files)
              /\ log' = <<"baseline_failed">>) =>
            /\ pc' = "proof_loop"
            /\ pi' = pi + 1 /\ ci' = ci
            /\ tree' = tree
            /\ challenges' = challenges]_vars
    /\ [][(pc = "proof_loop" /\ pc' = "cand_loop") =>
            pi = Len(candidate.proof_files) + 1]_vars

\* the baseline of the first proof file failed and a second one is next
C25_Witness ==
    /\ pc = "proof_loop"
    /\ log = <<"baseline_failed">>
    /\ pi = 2
    /\ pi <= Len(candidate.proof_files)

\* C26: a build that times out ends the work on its own proof file only: a
\* timed-out baseline moves on to the next proof file with the tree
\* untouched, and after a timed-out build of the reverted state the loop
\* moves on to the next proof file of the same candidate with the working
\* tree restored to the candidate commit
C26_TimeoutAffectsOnlyItsFile ==
    /\ [][(pc = "proof_loop" /\ pi <= Len(candidate.proof_files)
              /\ pc' # "revert") =>
            /\ pc' = "proof_loop" /\ pi' = pi + 1 /\ ci' = ci
            /\ tree' = tree]_vars
    /\ [][(pc = "restore" /\ result_broken.timeout) =>
            /\ pc' = "proof_loop" /\ pi' = pi + 1 /\ ci' = ci
            /\ tree' = safe_checkout(tree, repo, commit)]_vars

\* the two lists identify_candidates builds for commit c when the modified
\* files are read from the tree wt
ListsAt(c, wt) ==
    ClassifyLoop(FilterExcluded(get_modified_files(repo, c), config), wt,
                 config, [definition_files |-> <<>>, proof_files |-> <<>>,
                      classified |-> {}])

\* C27: the candidate of every classified commit is the partition of its
\* modified files by their content at that commit, whatever commit the
\* working tree is checked out at
C27_ClassifiedFromCommitContent ==
    pc # "crashed" =>
        \A i \in 1..Len(repo) :
            Classified(i) =>
                LET c == WalkCommit(i)
                    lists == ListsAt(c, repo[c].tree)
                IN  IF lists.definition_files # <<>> /\ lists.proof_files # <<>>
                    THEN \E k \in 1..Len(candidates) :
                            candidates[k] =
                                [commit_hash |-> repo[c].hexsha,
                                 definition_files |-> lists.definition_files,
                                 proof_files |-> lists.proof_files]
                    ELSE ~HasCandidate(c)

\* identify_candidates has returned
PhaseAReturned == pc \notin {"start", "phase_a", "crashed"}

\* min(N, T) for a cutoff N > 0, T without a cutoff
CommitsToClassify ==
    IF config.max_commits > 0 THEN Min(config.max_commits, Len(repo))
    ELSE Len(repo)

\* C28: Phase A is one forward pass over the walk, newest commit first, that
\* classifies every commit up to the cutoff once and none after it: with
\* max_commits = N > 0 and T commits exactly the min(N, T) newest, with
\* max_commits <= 0 all T; total_commits of the MiningResult is that number
C28_CutoffClassifiesNewest ==
    /\ [][processed' # processed =>
            /\ pc = "phase_a"
            /\ processed' = processed + 1
            /\ WalkCommit(processed') = Len(repo) - processed
            /\ IF processed' <= CommitsToClassify
               THEN \/ pc' = "crashed"
                    \/ /\ pc' = "phase_a"
                       /\ candidates' = IdentifyCommit(repo, WalkCommit(processed'),
                                                       tree, config, candidates)
               ELSE /\ pc' = "phase_a_done"
                    /\ candidates' = candidates]_vars
    /\ [](PhaseAReturned =>
            /\ {i \in 1..Len(repo) : Classified(i)} = 1..CommitsToClassify
            /\ processed >= CommitsToClassify
            /\ total_commits = CommitsToClassify
            /\ pc = "done" => result.total_commits = CommitsToClassify)

\* the cutoff ended the walk before the oldest commit
C28_Witness ==
    /\ pc = "done"
    /\ config.max_commits > 0
    /\ config.max_commits < Len(repo)
    /\ processed = config.max_commits + 1
    /\ result.total_commits = config.max_commits

\* p occurs in s when letter case is ignored
ContainsIgnoringCase(s, p) ==
    \E i \in 0..(Len(s) - Len(p)) :
        \A k \in 1..Len(p) : LowerChar(s[i + k]) = LowerChar(p[k])

\* C29: is_verification_error(stderr) is true exactly when stderr contains,
\* in any letter case, at least one proof-failure pattern and none of the
\* infrastructure-failure patterns; an empty stderr gives false
C29_VerificationErrorIffPatternAndNoExclusion ==
    verdict # <<>> =>
        /\ verdict[1] =
              (/\ \E p \in verification_patterns :
                     ContainsIgnoringCase(given_stderr, p)
               /\ \A x \in exclude_patterns :
                     ~ContainsIgnoringCase(given_stderr, x))
        /\ given_stderr = <<>> => verdict[1] = FALSE

\* a text with a proof-failure pattern and an infrastructure pattern, both
\* in upper or mixed case, was judged
C29_Witness ==
    /\ verdict = <<FALSE>>
    /\ given_stderr = Upper(VP_unsolved_goals) \o <<"\n">>
                        \o Capitalize(XP_syntax_error)

\* the lines of the text handed to parse_lean_error, and the positions of
\* those that hold the marker and of those that are not blank
GivenLines == SplitLines(given_stderr, <<>>)
LinesWith(marker) ==
    {i \in 1..Len(GivenLines) : Contains(GivenLines[i], marker)}
NonBlankLines == {i \in 1..Len(GivenLines) : HasNonSpace(GivenLines[i])}
First(positions) == CHOOSE i \in positions : \A j \in positions : i <= j

\* the result of a build that exits with a failure and the given stderr
FailedBuild ==
    run_lake_build([kind |-> "exit", returncode |-> 1, stderr |-> given_stderr])

\* C30 as stated: the error_message of a failed build is the first stderr
\* line holding "error:", else the first non-empty stderr line, else the
\* first 200 characters of stderr
C30_ErrorLineAsStated ==
    parsed # <<>> =>
        /\ FailedBuild.error_message = parsed[1]
        /\ parsed[1] =
             IF LinesWith(<<"e", "r", "r", "o", "r", ":">>) # {}
             THEN GivenLines[First(LinesWith(<<"e", "r", "r", "o", "r", ":">>))]
             ELSE IF NonBlankLines # {}
             THEN GivenLines[First(NonBlankLines)]
             ELSE Prefix(given_stderr, 200)

\* C30, amended: the error_message of a failed build is the first stderr
\* line holding ": error:"; without such a line, the first 200 characters of
\* the first line that is not blank; when every line is blank, the first 200
\* characters of stderr, and "Unknown error" for an empty stderr
C30_ErrorLineSelection ==
    parsed # <<>> =>
        /\ FailedBuild.error_message = parsed[1]
        /\ parsed[1] =
             IF LinesWith(<<":", " ", "e", "r", "r", "o", "r", ":">>) # {}
             THEN GivenLines[First(LinesWith(
                      <<":", " ", "e", "r", "r", "o", "r", ":">>))]
             ELSE IF NonBlankLines # {}
             THEN Prefix(GivenLines[First(NonBlankLines)], 200)
             ELSE IF given_stderr # <<>> THEN Prefix(given_stderr, 200)
             ELSE UnknownError

\* a compiler error line after a warning was picked
C30_Witness ==
    /\ given_stderr = StderrWarning \o <<"\n">> \o StderrTypeMismatch
    /\ parsed = <<StderrTypeMismatch>>

\* C31: among the classified files of a candidate's commit, a proof file is
\* in proof_files iff its theorem count or its lemma count reaches
\* min_theorem_count or its tactic block count reaches min_tactic_blocks,
\* and a definition file is in definition_files whether or not it is also a
\* proof file.
C31_ProofFileCountsIffAnyThreshold ==
    InPhaseA =>
        \A k \in 1..Len(candidates) :
            \A f \in Surviving(CommitByHash(repo, candidates[k].commit_hash)) :
                LET cl == classify_file(f, tree[f])
                IN  /\ f \in Range(candidates[k].proof_files) <=>
                          /\ cl.is_proof
                          /\ \/ cl.theorem_count >= config.min_theorem_count
                             \/ cl.lemma_count >= config.min_theorem_count
                             \/ cl.tactic_block_count >= config.min_tactic_blocks
                    /\ f \in Range(candidates[k].definition_files) <=>
                          cl.is_definition

\* a candidate holds one file in both lists, and the file has no theorem and
\* no lemma but enough tactic blocks
C31_Witness ==
    /\ pc = "phase_a_done"
    /\ \E k \in 1..Len(candidates) :
          \E f \in Range(candidates[k].proof_files) :
              /\ f \in Range(candidates[k].definition_files)
              /\ tree[f].theorems = 0 /\ tree[f].lemmas = 0
              /\ tree[f].tactics >= config.min_tactic_blocks

\* C32: classify_file is never called for a path on the exclusion list, no
\* candidate lists such a path among its definition or proof files, and a
\* classified commit all of whose modified files are excluded has no
\* candidate.
C32_ExcludedNeverClassified ==
    /\ \A e \in classified :
          ~should_exclude_path(e.path, config.exclude_paths)
    /\ \A k \in 1..Len(candidates) :
          \A f \in Range(candidates[k].definition_files)
                       \cup Range(candidates[k].proof_files) :
              ~should_exclude_path(f, config.exclude_paths)
    /\ \A i \in 1..Len(repo) :
          (/\ Classified(i)
           /\ \A f \in ModifiedSet(WalkCommit(i)) :
                 should_exclude_path(f, config.exclude_paths))
              => ~HasCandidate(WalkCommit(i))

\* Phase A is over: one commit became a candidate although it also modified
\* an excluded file, and another commit, whose only modified file is
\* excluded and is both a definition and a qualifying proof file on disk,
\* was passed over
C32_Witness ==
    /\ pc = "phase_a_done"
    /\ \E k \in 1..Len(candidates) :
          \E f \in ModifiedSet(CommitByHash(repo, candidates[k].commit_hash)) :
              tree[f].exists /\ should_exclude_path(f, config.exclude_paths)
    /\ \E i \in 1..Len(repo) :
          /\ Classified(i)
          /\ ~HasCandidate(WalkCommit(i))
          /\ ModifiedSet(WalkCommit(i)) # {}
          /\ \A f \in ModifiedSet(WalkCommit(i)) :
                /\ should_exclude_path(f, config.exclude_paths)
                /\ classify_file(f, tree[f]).is_definition
                /\ MeetsThreshold(classify_file(f, tree[f]), config)

\* C33: a Challenge is never created for a proof file whose broken-state
\* build timed out or whose invocation raised an exception, whatever the
\* captured stderr contains.
C33_NoChallengeFromTimeoutOrException ==
    [][(challenges' # challenges /\ challenges' # <<>>) =>
           /\ last_broken.kind = "exit"
           /\ ~result_broken.timeout]_vars

\* the candidates that contributed a challenge to the list chs
WithChallenges(chs) ==
    {k \in 1..Len(candidates) :
        \E j \in 1..Len(chs) : chs[j].commit_hash = candidates[k].commit_hash}

\* C34: the candidate loop advances by one candidate at a time and each
\* step puts the candidate in exactly one class (challenges added, one more
\* "no_verification_error", one more "exception"); when a non-dry run has
\* returned, candidates = candidates with challenges +
\* skipped_reasons["no_verification_error"] + skipped_reasons["exception"],
\* no other reason is counted, and valid_challenges is the length of the
\* challenges list.
C34_SkipAccountingExact ==
    /\ [][ci' # ci =>
            /\ ci' = ci + 1
            /\ ci <= Len(candidates)
            /\ LET added == all_challenges' # all_challenges
                   none == Count(skipped_reasons', "no_verification_error")
                             - Count(skipped_reasons, "no_verification_error")
                   exc  == Count(skipped_reasons', "exception")
                             - Count(skipped_reasons, "exception")
               IN  /\ none \in {0, 1} /\ exc \in {0, 1}
                   /\ (IF added THEN 1 ELSE 0) + none + exc = 1]_vars
    /\ []((pc = "done" /\ ~dry_run) =>
            /\ ci = Len(candidates) + 1
            /\ result.candidates = Len(candidates)
            /\ result.candidates =
                  Cardinality(WithChallenges(result.challenges))
                  + Count(result.skipped_reasons, "no_verification_error")
                  + Count(result.skipped_reasons, "exception")
            /\ DOMAIN result.skipped_reasons
                  \subseteq {"no_verification_error", "exception"}
            /\ result.valid_challenges = Len(result.challenges)
            /\ result.challenges = all_challenges)

\* a non-dry run has returned with three candidates, one in each class
C34_Witness ==
    /\ pc = "done" /\ ~dry_run
    /\ result.candidates = 3
    /\ Cardinality(WithChallenges(result.challenges)) = 1
    /\ Count(result.skipped_reasons, "no_verification_error") = 1
    /\ Count(result.skipped_reasons, "exception") = 1

\* C35: for a candidate that is the root commit, a proof file that reaches
\* the revert step is abandoned there (next proof file, tree and challenges
\* untouched), so no broken build, diff or snapshot runs for it; no
\* challenge, pending or emitted, belongs to a commit without parent, and
\* none carries the full-file-content form of get_file_diff.
C35_NoChallengeForRootCommit ==
    /\ [][(pc = "revert" /\ repo[commit].parents = <<>>) =>
             /\ pc' = "proof_loop"
             /\ pi' = pi + 1
             /\ tree' = tree
             /\ challenges' = challenges]_vars
    /\ [](pc \in {"broken", "diff", "snapshot"} => repo[commit].parents # <<>>)
    /\ [](\A ch \in Range(challenges) \cup Range(all_challenges) :
             /\ repo[CommitByHash(repo, ch.commit_hash)].parents # <<>>
             /\ ch.author_fix_diff.kind # "content")

\* the root commit is a candidate and its proof file has just been abandoned
\* at the revert step, after an earlier candidate gave a challenge
C35_Witness ==
    /\ pc = "proof_loop"
    /\ ci <= Len(candidates)
    /\ repo[commit].parents = <<>>
    /\ log = <<"baseline_ok", "revert_failed">>
    /\ all_challenges # <<>>

\* position of a challenge's candidate in the list of candidates, and of its
\* proof file in that candidate's proof_files
CandidateIndex(ch) ==
    CHOOSE k \in 1..Len(candidates) :
        candidates[k].commit_hash = ch.commit_hash

ProofFileIndex(ch) ==
    CHOOSE p \in 1..Len(candidates[CandidateIndex(ch)].proof_files) :
        candidates[CandidateIndex(ch)].proof_files[p] = ch.proof_file

InOutputOrder(chs) ==
    \A i, j \in 1..Len(chs) :
        i < j =>
            \/ CandidateIndex(chs[i]) < CandidateIndex(chs[j])
            \/ /\ CandidateIndex(chs[i]) = CandidateIndex(chs[j])
               /\ ProofFileIndex(chs[i]) < ProofFileIndex(chs[j])

\* C36: the candidates are in walk order, newest commit first; the
\* challenges, those of the candidate in progress after those of the
\* candidates before it, are ordered by candidate and then by position in
\* proof_files; the returned result holds them in that order and a written
\* output file holds their lines in that order.  Phase B runs only after the
\* walk of Phase A is over, never changes the list of candidates, and every
\* new challenge belongs to the one candidate and proof file in progress.
C36_ChallengesInWalkOrder ==
    /\ [](\A k, l \in 1..Len(candidates) :
             k < l => CommitByHash(repo, candidates[k].commit_hash)
                         > CommitByHash(repo, candidates[l].commit_hash))
    /\ [](InOutputOrder(all_challenges \o challenges))
    /\ []((pc = "done" /\ ~dry_run) =>
             /\ result.challenges = all_challenges
             /\ result.challenges # <<>> =>
                   output_file.lines =
                       [i \in 1..Len(result.challenges) |->
                           format_challenge_jsonl(result.challenges[i])])
    /\ [](pc \in {"cand_loop", "proof_loop", "revert", "broken", "diff",
                  "snapshot", "restore"}
             => processed >= CommitsToClassify)
    /\ [][pc \notin {"start", "phase_a"} =>
             candidates' = candidates /\ processed' = processed]_vars
    /\ [][(challenges' # challenges /\ challenges' # <<>>) =>
             /\ Len(challenges') = Len(challenges) + 1
             /\ challenges'[Len(challenges')].commit_hash
                   = candidates[ci].commit_hash
             /\ challenges'[Len(challenges')].proof_file
                   = candidates[ci].proof_files[pi]]_vars

\* a run has returned three challenges, two of them from the two proof files
\* of one candidate, and has written them
C36_Witness ==
    /\ pc = "done"
    /\ Len(result.challenges) = 3
    /\ CandidateIndex(result.challenges[1]) = 1
    /\ CandidateIndex(result.challenges[2]) = 2
    /\ CandidateIndex(result.challenges[3]) = 2
    /\ ProofFileIndex(result.challenges[2]) = 1
    /\ ProofFileIndex(result.challenges[3]) = 2
    /\ Len(output_file.lines) = 3

\* the longest prefix of a line that is white space
LeadingWhitespace(line) ==
    SubSeq(line, 1,
           CHOOSE n \in 0..Len(line) :
              /\ \A i \in 1..n : line[i] \in Whitespace
              /\ n < Len(line) => line[n + 1] \notin Whitespace)

\* the 1-based positions at which the arguments place the new line: the
\* line number if it is between 1 and one past the last line, otherwise the
\* position after each line that contains the stripped context_before and,
\* if context_after is given, is followed by a line that contains it
ResolvedPositions(lines, where) ==
    IF where.has_line
    THEN {where.line_number} \cap (1..(Len(lines) + 1))
    ELSE IF where.context_before # None
    THEN {j + 1 : j \in {i \in 1..Len(lines) :
            /\ Contains(lines[i], Strip(where.context_before))
            /\ where.context_after # None =>
                  /\ i < Len(lines)
                  /\ Contains(lines[i + 1], Strip(where.context_after))}}
    ELSE {}

\* C37: a call of an insertion tool leaves the message list as it was, so
\* get_code_state gives the same code after the call as before.  When the
\* arguments resolve to exactly one position, the call succeeds and returns
\* the code with one new line at that position, made of the indentation of
\* the line before it (of the line after it at position 1), the hint keyword
\* and the hint; otherwise (line number out of range, context not found,
\* ambiguous context, no position given) it returns success=false, a message
\* and the current code.  Without any code state it fails too.
C37_InsertLeavesHistoryAlone ==
    tool_call # <<>> =>
        LET call == tool_call[1]
            r == call.result
            cur == call.code_before
        IN  /\ messages = call.history
            /\ get_code_state(messages) = cur
            /\ cur = None => ~r.success /\ r.message # <<>>
            /\ cur # None =>
                  LET lines == SplitLines(cur, <<>>)
                      ps == ResolvedPositions(lines, call.where)
                  IN  IF Cardinality(ps) = 1
                      THEN LET p == CHOOSE q \in ps : TRUE
                               ref == IF p > 1 THEN lines[p - 1] ELSE lines[1]
                               hint_line == LeadingWhitespace(ref)
                                               \o HintType(call.tool)
                                               \o <<" ">> \o call.hint
                           IN  /\ r.success
                               /\ SplitLines(r.code, <<>>) =
                                     SubSeq(lines, 1, p - 1) \o <<hint_line>>
                                        \o SubSeq(lines, p, Len(lines))
                      ELSE /\ ~r.success
                           /\ r.message # <<>>
                           /\ r.code = cur

\* insert_assertion placed its hint after the indented loop header, found by
\* context, and the history still holds the code without it
C37_Witness ==
    /\ tool_call # <<>>
    /\ tool_call[1].tool = "insert_assertion"
    /\ tool_call[1].where = AtContext(ContextWhile, None)
    /\ tool_call[1].result.success
    /\ tool_call[1].result.line = <<" ", " ">> \o HintAssert \o <<" ">> \o HintQ
    /\ tool_call[1].result.code # CodeWithLoop
    /\ get_code_state(messages) = CodeWithLoop

\* the code carries the bypass attribute in some letter case
HasBypass(code) == ContainsIgnoringCase(code, BypassAttribute)

\* C39: the verifier is never started on a code that contains
\* "{:verify false}" in any letter case; while the code state contains it no
\* verify_dafny call has reported success, and run_agent never returns
\* success with a final code that contains it.
C39_BypassNeverVerifies ==
    /\ \A j \in 1..Len(submitted) : ~HasBypass(submitted[j].code)
    /\ (get_code_state(messages) # None /\ HasBypass(get_code_state(messages)))
          => ~success
    /\ (rpc = "returned" /\ success) =>
          /\ final_code # None
          /\ ~HasBypass(final_code)

\* run_agent has returned for a sample with the attribute after a
\* verify_dafny call: no success, and the verifier was never started
C39_Witness ==
    /\ rpc = "returned"
    /\ HasBypass(sample)
    /\ attempts > 0
    /\ ~success
    /\ final_code = sample
    /\ submitted = <<>>

\* the verify_dafny tool_use blocks among the model's responses
RECURSIVE VerifyCalls(_)
VerifyCalls(msgs) ==
    IF msgs = <<>> THEN 0
    ELSE VerifyCalls(SubSeq(msgs, 1, Len(msgs) - 1))
         + (IF msgs[Len(msgs)].role = "assistant"
            THEN Cardinality({i \in 1..Len(msgs[Len(msgs)].blocks) :
                     /\ msgs[Len(msgs)].blocks[i].type = "tool_use"
                     /\ msgs[Len(msgs)].blocks[i].name = "verify_dafny"})
            ELSE 0)

\* some tool result of the loop is a verify_dafny success
VerifiedInLoop ==
    \E m \in 1..Len(messages) :
        /\ messages[m].role = "user"
        /\ \E i \in 1..Len(messages[m].blocks) :
              /\ messages[m].blocks[i].type = "tool_result"
              /\ ~messages[m].blocks[i].is_error
              /\ messages[m].blocks[i].content =
                    <<"<check> Verification succeeded! All checks passed.">>

\* what is left of run_agent: the positions after the current one, and the
\* iterations the loop can still make
StepsLeft ==
    2 * (max_iterations - iteration)
      + (CASE rpc = "loop" -> 3
           [] rpc = "final_call" -> 2
           [] rpc = "after_loop" -> 1
           [] OTHER -> 0)

\* the guard of a model call, of leaving the loop, of the final call or of
\* the return holds
CanStep ==
    \/ InLoop
    \/ rpc = "loop" /\ iteration >= max_iterations
    \/ rpc = "final_call"
    \/ rpc = "after_loop"

\* C38: run_agent returns in every run: until it has returned a step is
\* possible, every step brings it closer to the return by a measure that
\* cannot fall below zero, and nothing happens after the return.  The
\* model is called at most
\* max_iterations times in the loop and once more only after a success; the
\* loop is left on an API error, on a response that is not a tool_use
\* response and on a turn with a successful verification, and goes on only
\* after a tool_use turn without one; success is set only if a verify_dafny
\* call of the loop has reported success, and attempts counts the
\* verify_dafny calls of the loop.
C38_RunAgentTerminates ==
    /\ [](rpc # "returned" => CanStep)
    /\ [][StepsLeft' < StepsLeft /\ StepsLeft' >= 0]_vars
    /\ [](/\ iteration <= max_iterations
          /\ model_calls <= max_iterations + (IF success THEN 1 ELSE 0)
          /\ attempts = VerifyCalls(messages)
          /\ success => VerifiedInLoop)
    /\ [][model_calls' # model_calls =>
            /\ model_calls' = model_calls + 1
            /\ IF rpc = "loop"
               THEN /\ iteration < max_iterations
                    /\ ~success
                    /\ IF Len(messages') = Len(messages) + 2
                       THEN IF success'
                            THEN rpc' = "final_call"
                            ELSE rpc' = "loop" /\ iteration' = iteration + 1
                       ELSE rpc' = "after_loop"
               ELSE /\ rpc = "final_call"
                    /\ success
                    /\ rpc' = "after_loop"]_vars
    /\ [][rpc # "returned"]_vars

\* run_agent has returned a success after a failed and a successful
\* verification, max_iterations model calls and the final call
C38_Witness ==
    /\ rpc = "returned"
    /\ success
    /\ attempts = 2
    /\ model_calls = max_iterations + 1
    /\ iteration = max_iterations - 1

====
